---- MODULE Spec2Model ----
(***************************************************************************)
(* Booking widget of mps-frontend: DateTimeRangePicker,                    *)
(* ExtendDateTimeRangePicker and BookingForm.                              *)
(*                                                                         *)
(* A Date is its getTime() value: milliseconds since the epoch, read in a  *)
(* local time zone without offset or daylight saving, so day 0 is          *)
(* Thursday 1 January 1970.  Strings are sequences of one-character        *)
(* strings, compared by character code as JavaScript compares them.        *)
(***************************************************************************)
EXTENDS Integers, Sequences, FiniteSets, TLC

\* ------------------------------------------------------------------ bounds
\* calendar days 0..MaxDay are offered by the date pickers
MaxDay == 1
\* loadShopHours is called at most MaxFetches times in the life of a picker
MaxFetches == 3

\* ------------------------------------------------------------- Date values
NULL == -1

MsPerSecond == 1000
MsPerMinute == 60 * 1000
MsPerHour == 60 * 60 * 1000
MsPerDay == 24 * 60 * 60 * 1000

\* new Date(y, m, d, h, mi, s, ms) on calendar day `day`
MkDate(day, h, mi, s, ms) ==
    day * MsPerDay + h * MsPerHour + mi * MsPerMinute + s * MsPerSecond + ms

DayOf(d) == d \div MsPerDay
getDay(d) == (DayOf(d) + 4) % 7
getHours(d) == (d % MsPerDay) \div MsPerHour
getMinutes(d) == (d % MsPerHour) \div MsPerMinute
getSeconds(d) == (d % MsPerMinute) \div MsPerSecond
getMilliseconds(d) == d % MsPerSecond

\* Date.prototype.setMinutes: a value of 60 or more carries into the hour
setMinutes(d, mi) == d - getMinutes(d) * MsPerMinute + mi * MsPerMinute
setSeconds(d, s) == d - getSeconds(d) * MsPerSecond + s * MsPerSecond
setMilliseconds(d, ms) == d - getMilliseconds(d) + ms
\* Date.prototype.setHours(h, mi, s, ms): keeps the calendar day
setHours(d, h, mi, s, ms) == MkDate(DayOf(d), h, mi, s, ms)

\* date-fns isSameDay
isSameDay(a, b) == DayOf(a) = DayOf(b)

\* ----------------------------------------------------------------- strings
Chars == <<"0", "1", "2", "3", "4", "5", "6", "7", "8", "9", ":">>
\* UTF-16 code unit of a character of a time string ('0' is 48, ':' is 58)
CharCode(c) == 47 + (CHOOSE i \in 1..Len(Chars) : Chars[i] = c)
DigitOf(c) == CharCode(c) - 48

pad2(n) == <<Chars[(n \div 10) + 1], Chars[(n % 10) + 1]>>
\* "HH:MM:SS", the shape the operating-hours rows are stored in
TimeStr(h, mi, s) == pad2(h) \o <<":">> \o pad2(mi) \o <<":">> \o pad2(s)

\* s.substring(0, 5)
substring05(s) == SubSeq(s, 1, IF Len(s) < 5 THEN Len(s) ELSE 5)

\* date.toTimeString().split(' ')[0].substring(0, 5): local "HH:MM"
toTimeString05(d) == pad2(getHours(d)) \o <<":">> \o pad2(getMinutes(d))

\* a <= b on JavaScript strings: lexicographic by code unit
RECURSIVE StrLeq(_, _)
StrLeq(a, b) ==
    IF Len(a) = 0 THEN TRUE
    ELSE IF Len(b) = 0 THEN FALSE
    ELSE IF CharCode(Head(a)) < CharCode(Head(b)) THEN TRUE
    ELSE IF CharCode(Head(a)) > CharCode(Head(b)) THEN FALSE
    ELSE StrLeq(Tail(a), Tail(b))

\* s.split(':').map(Number)
RECURSIVE splitNumbers(_, _, _)
splitNumbers(s, i, acc) ==
    IF i > Len(s) THEN <<acc>>
    ELSE IF s[i] = ":" THEN <<acc>> \o splitNumbers(s, i + 1, 0)
    ELSE splitNumbers(s, i + 1, acc * 10 + DigitOf(s[i]))

splitColon(s) == splitNumbers(s, 1, 0)

\* ------------------------------------------------------- 15-minute snapping
\* DateTimeRangePicker.enforceStrict15Minutes on a non-null date
enforceStrict15Minutes(date) ==
    LET minutes == getMinutes(date)
        remainder == minutes % 15
    IN  IF remainder # 0
        THEN setMilliseconds(setSeconds(setMinutes(date, minutes - remainder), 0), 0)
        ELSE setMilliseconds(setSeconds(date, 0), 0)

\* mutant: a time already on a quarter hour is moved to the next one
roundUpToNext15Minutes_alwaysAdvance(date) ==
    LET minutes == getMinutes(date)
        remainder == minutes % 15
    IN  setMilliseconds(setSeconds(setMinutes(date, minutes + (15 - remainder)), 0), 0)

\* DateTimeRangePicker.roundUpToNext15Minutes
roundUpToNext15Minutes(date) ==
    LET minutes == getMinutes(date)
        remainder == minutes % 15
    IN  IF remainder # 0
        THEN setMilliseconds(setSeconds(setMinutes(date, minutes + (15 - remainder)), 0), 0)
        ELSE setMilliseconds(setSeconds(date, 0), 0)

\* ------------------------------------------------------------------- state
VARIABLES
    now,                  \* new Date(): the wall clock
    picker,               \* which picker component the page has mounted
    props,                \* operatingHours / closureDates props of the picker
    location,             \* the location prop of the picker
    issued,               \* how many times the load effect has called loadShopHours
    operatingHours,       \* useState<OperatingHours[]>([])
    closureDates,         \* useState<ClosureDate[]>([])
    isLoadingShopHours,   \* useState(false)
    inflight,             \* locations of the loadShopHours calls awaiting their fetch
    startDate,            \* parent state handed down as the startDate prop
    endDate,              \* parent state handed down as the endDate prop
    viewedDateInCalendar, \* ExtendDateTimeRangePicker only
    user,                 \* useAuth().user as BookingForm sees it
    route,                \* the page BookingForm's router has pushed to
    people,               \* BookingForm useState<number>(1)
    peopleBreakdown,      \* BookingForm people breakdown state
    toastMsg,             \* description (or title) of the toast of the last handler
    calls,                \* the prop callbacks the last handler invoked, in order
    lastOp,               \* the last handler and its argument
    probe,                \* the last application of a validation helper
    databaseUser,         \* useAuth useState<DatabaseUser | null>(null)
    loading,              \* useAuth useState(true)
    storage,              \* localStorage entries auth_user and database_user
    hasCachedData,        \* useAuth mount effect: let hasCachedData
    isMounted,            \* useAuth mount effect: let isMounted
    storedDatabaseUser,   \* useAuth mount effect: const storedDatabaseUser
    session,              \* the session the auth SDK holds
    tasks,                \* the async calls of useAuth that await an SDK call
    pendingSignedOut,     \* a SIGNED_OUT event the SDK has still to deliver
    windowEvents,         \* the events dispatched on window
    dbFetches,            \* who issued each database-user query, in order
    authSteps             \* auth events and refresh calls so far

vars == <<now, picker, props, location, issued, operatingHours, closureDates, isLoadingShopHours,
          inflight, startDate, endDate, viewedDateInCalendar, user, route,
          people, peopleBreakdown, toastMsg, calls, lastOp, probe,
          databaseUser, loading, storage, hasCachedData, isMounted,
          storedDatabaseUser, session, tasks, pendingSignedOut, windowEvents,
          dbFetches, authSteps>>

\* the state of useAuth besides user
authVars == <<databaseUser, loading, storage, hasCachedData, isMounted,
              storedDatabaseUser, session, tasks, pendingSignedOut, windowEvents,
              dbFetches, authSteps>>

\* an optional prop is the empty sequence when undefined, <<value>> when passed
UNDEFINED == <<>>

\* the pickers and BookingForm read only user from useAuth: the rest of the
\* hook is at rest, signed out and without storage
AuthAtRest ==
    /\ databaseUser = <<>>
    /\ loading = FALSE
    /\ storage = [auth_user |-> NULL, database_user |-> <<>>]
    /\ hasCachedData = FALSE
    /\ isMounted = TRUE
    /\ storedDatabaseUser = <<>>
    /\ session = NULL
    /\ tasks = <<>>
    /\ pendingSignedOut = FALSE
    /\ windowEvents = <<>>
    /\ dbFetches = <<>>
    /\ authSteps = 0

\* const finalOperatingHours = propOperatingHours ?? operatingHours
finalOperatingHours ==
    IF props.operatingHours # UNDEFINED THEN props.operatingHours[1] ELSE operatingHours
\* const finalClosureDates = propClosureDates ?? closureDates
finalClosureDates ==
    IF props.closureDates # UNDEFINED THEN props.closureDates[1] ELSE closureDates

\* rows.find(h => h.dayOfWeek === dayOfWeek && h.isActive): the matching rows
\* in table order; find yields the first one, or undefined when there is none
findDayHours(rows, dayOfWeek) ==
    SelectSeq(rows, LAMBDA h : h.dayOfWeek = dayOfWeek /\ h.isActive)

\* --------------------------------------------- DateTimeRangePicker helpers
\* DateTimeRangePicker.getOptimalStartTime
getOptimalStartTime(selectedDate) ==
    LET isToday == isSameDay(selectedDate, now)
        found == findDayHours(finalOperatingHours, getDay(selectedDate))
    IN  IF Len(found) = 0
        THEN setHours(selectedDate, 9, 0, 0, 0)
        ELSE LET dayHours == found[1]
                 open == splitColon(dayHours.openTime)
                 openTime == setHours(selectedDate, open[1], open[2], 0, 0)
                 roundedNow == roundUpToNext15Minutes(now)
             IN  IF isToday
                 THEN IF roundedNow < openTime THEN openTime ELSE roundedNow
                 ELSE openTime

\* mutant: the closing minute itself is taken as closed
isTimeWithinShopHours_closeExclusive(date) ==
    LET found == findDayHours(finalOperatingHours, getDay(date))
    IN  IF Len(found) = 0 \/ Len(finalOperatingHours) = 0
        THEN FALSE
        ELSE LET timeString == toTimeString05(date)
                 openTime == substring05(found[1].openTime)
                 closeTime == substring05(found[1].closeTime)
             IN  StrLeq(openTime, timeString) /\ ~StrLeq(closeTime, timeString)

\* DateTimeRangePicker.isTimeWithinShopHours
isTimeWithinShopHours(date) ==
    LET found == findDayHours(finalOperatingHours, getDay(date))
    IN  IF Len(found) = 0 \/ Len(finalOperatingHours) = 0
        THEN FALSE
        ELSE LET timeString == toTimeString05(date)
                 openTime == substring05(found[1].openTime)
                 closeTime == substring05(found[1].closeTime)
             IN  StrLeq(openTime, timeString) /\ StrLeq(timeString, closeTime)

\* mutant: a span that only touches a closure counts as overlapping it
isTimeSlotInClosure_touching(startTime, endTime) ==
    \E i \in 1..Len(finalClosureDates) :
        LET closureStart == finalClosureDates[i].startDate
            closureEnd == finalClosureDates[i].endDate
        IN  startTime <= closureEnd /\ endTime >= closureStart

\* DateTimeRangePicker.isTimeSlotInClosure
isTimeSlotInClosure(startTime, endTime) ==
    \E i \in 1..Len(finalClosureDates) :
        LET closureStart == finalClosureDates[i].startDate
            closureEnd == finalClosureDates[i].endDate
        IN  startTime < closureEnd /\ endTime > closureStart

GRACE_MINUTES == 5
GRACE_MS == GRACE_MINUTES * 60 * 1000

\* mutant: the grace is granted to same-day spans as well
isTimeWithinShopHoursWithGrace_graceAlways(date, isOvernight) ==
    LET found == findDayHours(finalOperatingHours, getDay(date))
    IN  IF Len(found) = 0 \/ Len(finalOperatingHours) = 0
        THEN FALSE
        ELSE LET timeString == toTimeString05(date)
                 openTime == substring05(found[1].openTime)
                 closeTime == substring05(found[1].closeTime)
                 close == splitColon(closeTime)
                 closeTimeDate == setHours(date, close[1], close[2], 0, 0)
                 open == splitColon(openTime)
                 openTimeDate == setHours(date, open[1], open[2], 0, 0)
             IN  \/ StrLeq(openTime, timeString) /\ StrLeq(timeString, closeTime)
                 \/ (date > closeTimeDate /\ date <= closeTimeDate + GRACE_MS)
                 \/ (date < openTimeDate /\ date >= openTimeDate - GRACE_MS)

\* DateTimeRangePicker.isTimeWithinShopHoursWithGrace
isTimeWithinShopHoursWithGrace(date, isOvernight) ==
    LET found == findDayHours(finalOperatingHours, getDay(date))
    IN  IF Len(found) = 0 \/ Len(finalOperatingHours) = 0
        THEN FALSE
        ELSE LET timeString == toTimeString05(date)
                 openTime == substring05(found[1].openTime)
                 closeTime == substring05(found[1].closeTime)
                 close == splitColon(closeTime)
                 closeTimeDate == setHours(date, close[1], close[2], 0, 0)
                 graceAfterClose == closeTimeDate + GRACE_MS
                 open == splitColon(openTime)
                 openTimeDate == setHours(date, open[1], open[2], 0, 0)
                 graceBeforeOpen == openTimeDate - GRACE_MS
             IN  IF StrLeq(openTime, timeString) /\ StrLeq(timeString, closeTime)
                 THEN TRUE
                 ELSE IF isOvernight
                 THEN \/ (date > closeTimeDate /\ date <= graceAfterClose)
                      \/ (date < openTimeDate /\ date >= graceBeforeOpen)
                 ELSE FALSE

ShopClosedMsg == "Unable to book this slot as the shop is close in this timeslot."
MinDurationMsg == "Minimum booking duration is 1 hour"
NoToast == "none"

\* mutant: only the start of the slot is tested against the hours
validateTimeSlot_startOnly(startTime, endTime) ==
    LET isOvernight == ~isSameDay(startTime, endTime)
    IN  IF ~isTimeWithinShopHoursWithGrace(startTime, isOvernight)
        THEN [isValid |-> FALSE, errorMessage |-> ShopClosedMsg]
        ELSE IF isTimeSlotInClosure(startTime, endTime)
        THEN [isValid |-> FALSE, errorMessage |-> ShopClosedMsg]
        ELSE [isValid |-> TRUE, errorMessage |-> NoToast]

\* DateTimeRangePicker.validateTimeSlot
validateTimeSlot(startTime, endTime) ==
    LET isOvernight == ~isSameDay(startTime, endTime)
    IN  IF ~isTimeWithinShopHoursWithGrace(startTime, isOvernight)
        THEN [isValid |-> FALSE, errorMessage |-> ShopClosedMsg]
        ELSE IF ~isTimeWithinShopHoursWithGrace(endTime, isOvernight)
        THEN [isValid |-> FALSE, errorMessage |-> ShopClosedMsg]
        ELSE IF isTimeSlotInClosure(startTime, endTime)
        THEN [isValid |-> FALSE, errorMessage |-> ShopClosedMsg]
        ELSE [isValid |-> TRUE, errorMessage |-> NoToast]

\* DateTimeRangePicker.getOptimalEndTime
getOptimalEndTime(selectedDate) ==
    IF startDate = NULL
    THEN setHours(selectedDate, 9, 0, 0, 0)
    ELSE IF isSameDay(selectedDate, startDate)
    THEN LET minEndTime == startDate + 60 * 60 * 1000
         IN  IF isSameDay(selectedDate, now) /\ minEndTime < now
             THEN LET roundedNow == roundUpToNext15Minutes(now)
                  IN  IF roundedNow > minEndTime THEN roundedNow ELSE minEndTime
             ELSE minEndTime
    ELSE LET found == findDayHours(finalOperatingHours, getDay(selectedDate))
         IN  IF Len(found) > 0 /\ Len(finalOperatingHours) > 0
             THEN LET open == splitColon(found[1].openTime)
                  IN  setHours(selectedDate, open[1], open[2], 0, 0)
             ELSE setHours(selectedDate, 9, 0, 0, 0)

\* --------------------------------- exclusion and availability enumeration
\* the body of finalClosureDates.forEach in getExcludedDates, the same code
\* in both pickers: the days it pushes for one closure.  The while loop
\* visits the calendar days from the day of the closure's start up to and
\* including the day of its end.
excludedByClosure(rows, closure) ==
    LET closureStartTime == getHours(closure.startDate) * 60 + getMinutes(closure.startDate)
        closureEndTime == getHours(closure.endDate) * 60 + getMinutes(closure.endDate)
        visited == [k \in 1..(DayOf(closure.endDate) - DayOf(closure.startDate) + 1) |->
                       MkDate(DayOf(closure.startDate) + k - 1, 0, 0, 0, 0)]
        isExcluded(currentDate) ==
            LET found == findDayHours(rows, getDay(currentDate))
            IN  IF Len(found) > 0
                THEN LET open == splitColon(found[1].openTime)
                         close == splitColon(found[1].closeTime)
                         operatingStartTime == open[1] * 60 + open[2]
                         operatingEndTime == close[1] * 60 + close[2]
                     IN  closureStartTime <= operatingStartTime
                         /\ closureEndTime >= operatingEndTime
                ELSE closureStartTime = 0 /\ closureEndTime >= 1439
    IN  SelectSeq(visited, LAMBDA currentDate : isExcluded(currentDate))

RECURSIVE excludedDates(_, _)
excludedDates(rows, closures) ==
    IF Len(closures) = 0 THEN <<>>
    ELSE excludedByClosure(rows, Head(closures)) \o excludedDates(rows, Tail(closures))

\* DateTimeRangePicker.getExcludedDates
getExcludedDates == excludedDates(finalOperatingHours, finalClosureDates)

\* the 96 times start + i * 15 * 60 * 1000 of the day of date
quarterHours(date) ==
    [i \in 1..(24 * 4) |-> setHours(date, 0, 0, 0, 0) + (i - 1) * 15 * 60 * 1000]

\* mutant: without operating hours no time is offered
getAvailableTimes_emptyFallback(date) ==
    LET isToday == isSameDay(date, now)
        found == findDayHours(finalOperatingHours, getDay(date))
    IN  IF Len(finalOperatingHours) = 0 \/ Len(found) = 0
        THEN <<>>
        ELSE LET openTime == substring05(found[1].openTime)
                 closeTime == substring05(found[1].closeTime)
                 isInClosure(time) ==
                     \E i \in 1..Len(finalClosureDates) :
                         /\ time >= finalClosureDates[i].startDate
                         /\ time < finalClosureDates[i].endDate
             IN  SelectSeq(quarterHours(date), LAMBDA time :
                     /\ StrLeq(openTime, toTimeString05(time))
                     /\ StrLeq(toTimeString05(time), closeTime)
                     /\ ~isInClosure(time)
                     /\ (~isToday \/ time > now))

\* DateTimeRangePicker.getAvailableTimes on a non-null date
getAvailableTimes(date) ==
    LET isToday == isSameDay(date, now)
        found == findDayHours(finalOperatingHours, getDay(date))
    IN  IF Len(finalOperatingHours) = 0 \/ Len(found) = 0
        THEN SelectSeq(quarterHours(date), LAMBDA time : ~isToday \/ time > now)
        ELSE LET openTime == substring05(found[1].openTime)
                 closeTime == substring05(found[1].closeTime)
                 isInClosure(time) ==
                     \E i \in 1..Len(finalClosureDates) :
                         /\ time >= finalClosureDates[i].startDate
                         /\ time < finalClosureDates[i].endDate
             IN  SelectSeq(quarterHours(date), LAMBDA time :
                     /\ StrLeq(openTime, toTimeString05(time))
                     /\ StrLeq(toTimeString05(time), closeTime)
                     /\ ~isInClosure(time)
                     /\ (~isToday \/ time > now))

\* ------------------------------------------- DateTimeRangePicker handlers
\* what a handler did: the toast it raised and the prop callbacks it invoked
Outcome(t, c) == [toast |-> t, calls |-> c]
onStartDateChange(d) == [cb |-> "onStartDateChange", arg |-> d]
onEndDateChange(d) == [cb |-> "onEndDateChange", arg |-> d]

\* date.getHours() === 0 && date.getMinutes() === 0 && date.getSeconds() === 0
isDateOnlySelection(date) ==
    getHours(date) = 0 /\ getMinutes(date) = 0 /\ getSeconds(date) = 0

\* mutant: only the minutes of a 23:xx closing time are tested
overnightBlocked_minutesOnly ==
    LET found == findDayHours(finalOperatingHours, getDay(startDate))
    IN  IF Len(found) = 0
        THEN FALSE
        ELSE LET close == splitColon(found[1].closeTime)
             IN  close[1] = 23 /\ close[2] < 55

\* closeHours < 23 || (closeHours === 23 && closeMinutes < 55) for the active
\* row of the start weekday; false when that weekday has no active row
overnightBlocked ==
    LET found == findDayHours(finalOperatingHours, getDay(startDate))
    IN  IF Len(found) = 0
        THEN FALSE
        ELSE LET close == splitColon(found[1].closeTime)
             IN  close[1] < 23 \/ (close[1] = 23 /\ close[2] < 55)

\* DateTimeRangePicker.handleDateSelect on a non-null date
handleDateSelectOutcome(date) ==
    LET optimalTime == getOptimalStartTime(date)
        validDate == enforceStrict15Minutes(optimalTime)
    IN  Outcome(NoToast, <<onStartDateChange(validDate), onEndDateChange(NULL)>>)

\* mutant: a manual time selection replaces the start and keeps the end
handleStartChangeOutcome_keepsEnd(date) ==
    IF date = NULL
    THEN Outcome(NoToast, <<onStartDateChange(NULL), onEndDateChange(NULL)>>)
    ELSE IF isDateOnlySelection(date)
    THEN LET validDate == enforceStrict15Minutes(getOptimalStartTime(date))
         IN  Outcome(NoToast, <<onStartDateChange(validDate), onEndDateChange(NULL)>>)
    ELSE LET validDate == enforceStrict15Minutes(date)
         IN  Outcome(NoToast, <<onStartDateChange(validDate)>>)

\* DateTimeRangePicker.handleStartChange
handleStartChangeOutcome(date) ==
    IF date = NULL
    THEN Outcome(NoToast, <<onStartDateChange(NULL), onEndDateChange(NULL)>>)
    ELSE IF isDateOnlySelection(date)
    THEN LET validDate == enforceStrict15Minutes(getOptimalStartTime(date))
         IN  Outcome(NoToast, <<onStartDateChange(validDate), onEndDateChange(NULL)>>)
    ELSE LET validDate == enforceStrict15Minutes(date)
             clear == IF endDate # NULL THEN <<onEndDateChange(NULL)>> ELSE <<>>
         IN  Outcome(NoToast,
                     clear \o <<onStartDateChange(validDate), onEndDateChange(NULL)>>)

\* DateTimeRangePicker.handleEndChange, date-only branch (lines 1063-1117)
handleEndChangeDateOnly(date) ==
    IF ~isSameDay(date, startDate) /\ overnightBlocked
    THEN Outcome(ShopClosedMsg, <<>>)
    ELSE LET validDate0 == IF isSameDay(date, startDate)
                           THEN startDate + 60 * 60 * 1000
                           ELSE getOptimalEndTime(date)
             validDate == enforceStrict15Minutes(validDate0)
             durationMs == validDate - startDate
             validation == validateTimeSlot(startDate, validDate)
         IN  IF durationMs < 1000 * 60 * 60
             THEN Outcome(MinDurationMsg, <<>>)
             ELSE IF ~validation.isValid
             THEN Outcome(validation.errorMessage, <<>>)
             ELSE Outcome(NoToast, <<onEndDateChange(validDate)>>)

\* mutant: a short same-day pick is not raised to start + 60 minutes
handleEndChangeTime_noClamp(date) ==
    LET validDate == enforceStrict15Minutes(date)
        validation == validateTimeSlot(startDate, validDate)
    IN  IF isSameDay(validDate, startDate) /\ endDate # NULL /\ validDate = endDate
        THEN Outcome(NoToast, <<>>)
        ELSE IF ~isSameDay(validDate, startDate) /\ overnightBlocked
        THEN Outcome(ShopClosedMsg, <<>>)
        ELSE IF ~validation.isValid
        THEN Outcome(validation.errorMessage, <<>>)
        ELSE Outcome(NoToast, <<onEndDateChange(validDate)>>)

\* DateTimeRangePicker.handleEndChange, time-selection branch (lines 1119-1176)
handleEndChangeTime(date) ==
    LET validDate0 == enforceStrict15Minutes(date)
        minEndTime == startDate + 60 * 60 * 1000
        validDate == IF isSameDay(validDate0, startDate) /\ validDate0 < minEndTime
                     THEN minEndTime
                     ELSE validDate0
        validation == validateTimeSlot(startDate, validDate)
    IN  IF isSameDay(validDate0, startDate) /\ endDate # NULL /\ validDate0 = endDate
        THEN Outcome(NoToast, <<>>)
        ELSE IF ~isSameDay(validDate0, startDate) /\ overnightBlocked
        THEN Outcome(ShopClosedMsg, <<>>)
        ELSE IF ~validation.isValid
        THEN Outcome(validation.errorMessage, <<>>)
        ELSE Outcome(NoToast, <<onEndDateChange(validDate)>>)

SelectStartFirstMsg == "Select Start Date First"

\* DateTimeRangePicker.handleEndChange
handleEndChangeOutcome(date) ==
    IF date = NULL
    THEN Outcome(NoToast, <<onEndDateChange(NULL)>>)
    ELSE IF startDate = NULL
    THEN Outcome(SelectStartFirstMsg, <<>>)
    ELSE IF isDateOnlySelection(date)
    THEN handleEndChangeDateOnly(date)
    ELSE handleEndChangeTime(date)

\* the parent passes setStartDate / setEndDate as the callbacks
\* (BookingForm lines 210-211): the last call of a handler wins
RECURSIVE lastArg(_, _, _)
lastArg(cs, cb, cur) ==
    IF Len(cs) = 0 THEN cur
    ELSE lastArg(Tail(cs), cb, IF Head(cs).cb = cb THEN Head(cs).arg ELSE cur)

\* --------------------------------------- ExtendDateTimeRangePicker helpers
\* ExtendDateTimeRangePicker.enforceStrict15Minutes on a non-null date
Ext_enforceStrict15Minutes(date) ==
    LET minutes == getMinutes(date)
        remainder == minutes % 15
    IN  IF remainder # 0
        THEN setMilliseconds(setSeconds(setMinutes(date, minutes - remainder), 0), 0)
        ELSE setMilliseconds(setSeconds(date, 0), 0)

\* ExtendDateTimeRangePicker.roundUpToNext15Minutes
Ext_roundUpToNext15Minutes(date) ==
    LET minutes == getMinutes(date)
        remainder == minutes % 15
    IN  IF remainder # 0
        THEN setMilliseconds(setSeconds(setMinutes(date, minutes + (15 - remainder)), 0), 0)
        ELSE setMilliseconds(setSeconds(date, 0), 0)

\* ExtendDateTimeRangePicker.isTimeWithinShopHours
Ext_isTimeWithinShopHours(date) ==
    LET found == findDayHours(operatingHours, getDay(date))
    IN  IF Len(found) = 0 \/ Len(operatingHours) = 0
        THEN FALSE
        ELSE LET timeString == toTimeString05(date)
                 openTime == substring05(found[1].openTime)
                 closeTime == substring05(found[1].closeTime)
             IN  StrLeq(openTime, timeString) /\ StrLeq(timeString, closeTime)

\* ExtendDateTimeRangePicker.isTimeSlotInClosure
Ext_isTimeSlotInClosure(startTime, endTime) ==
    IF Len(closureDates) = 0
    THEN FALSE
    ELSE \E i \in 1..Len(closureDates) :
            IF ~closureDates[i].isActive
            THEN FALSE
            ELSE startTime < closureDates[i].endDate
                 /\ endTime > closureDates[i].startDate

UnableToBookMsg == "Unable to book this slot."
MinExtensionMsg == "Extension requires at least 1 hour."
StartRequiredMsg == "Start date is required."

\* mutant: the extension picker grants the base picker's overnight grace
Ext_validateTimeSlot_withGrace(startTime, endTime) ==
    IF ~isTimeWithinShopHoursWithGrace(endTime, ~isSameDay(startTime, endTime))
    THEN [isValid |-> FALSE, errorMessage |-> UnableToBookMsg]
    ELSE IF Ext_isTimeSlotInClosure(startTime, endTime)
    THEN [isValid |-> FALSE, errorMessage |-> UnableToBookMsg]
    ELSE [isValid |-> TRUE, errorMessage |-> NoToast]

\* ExtendDateTimeRangePicker.validateTimeSlot
Ext_validateTimeSlot(startTime, endTime) ==
    IF ~Ext_isTimeWithinShopHours(endTime)
    THEN [isValid |-> FALSE, errorMessage |-> UnableToBookMsg]
    ELSE IF Ext_isTimeSlotInClosure(startTime, endTime)
    THEN [isValid |-> FALSE, errorMessage |-> UnableToBookMsg]
    ELSE [isValid |-> TRUE, errorMessage |-> NoToast]

\* ExtendDateTimeRangePicker.getOptimalEndTime
Ext_getOptimalEndTime(selectedDate) ==
    IF startDate = NULL
    THEN setHours(selectedDate, 9, 0, 0, 0)
    ELSE IF isSameDay(selectedDate, startDate)
    THEN LET minEndTime == startDate + 60 * 60 * 1000
         IN  IF isSameDay(selectedDate, now) /\ minEndTime < now
             THEN LET roundedNow == Ext_roundUpToNext15Minutes(now)
                  IN  IF roundedNow > minEndTime THEN roundedNow ELSE minEndTime
             ELSE minEndTime
    ELSE LET found == findDayHours(operatingHours, getDay(selectedDate))
         IN  IF Len(found) > 0 /\ Len(operatingHours) > 0
             THEN LET open == splitColon(found[1].openTime)
                  IN  setHours(selectedDate, open[1], open[2], 0, 0)
             ELSE setHours(selectedDate, 9, 0, 0, 0)

\* ExtendDateTimeRangePicker.getExcludedDates
Ext_getExcludedDates == excludedDates(operatingHours, closureDates)

\* ExtendDateTimeRangePicker.getAvailableTimes on a non-null date
Ext_getAvailableTimes(date) ==
    LET isToday == isSameDay(date, now)
        found == findDayHours(operatingHours, getDay(date))
    IN  IF Len(found) = 0 \/ Len(operatingHours) = 0
        THEN <<>>
        ELSE LET openTime == substring05(found[1].openTime)
                 closeTime == substring05(found[1].closeTime)
                 isInClosure(time) ==
                     \E i \in 1..Len(closureDates) :
                         IF ~closureDates[i].isActive
                         THEN FALSE
                         ELSE /\ time >= closureDates[i].startDate
                              /\ time < closureDates[i].endDate
             IN  SelectSeq(quarterHours(date), LAMBDA time :
                     /\ StrLeq(openTime, toTimeString05(time))
                     /\ StrLeq(toTimeString05(time), closeTime)
                     /\ ~isInClosure(time)
                     /\ (~isToday \/ time > now))

\* what the extension handler did; viewed is the value it leaves in
\* viewedDateInCalendar
ExtOutcome(t, c, v) == [toast |-> t, calls |-> c, viewed |-> v]

\* mutant: a rejected date-only pick clears the committed end
Ext_handleEndChangeDateOnly_clearsEnd(date) ==
    LET validDate0 == IF isSameDay(date, startDate)
                      THEN startDate + 60 * 60 * 1000
                      ELSE Ext_getOptimalEndTime(date)
        validDate == Ext_enforceStrict15Minutes(validDate0)
        validation == Ext_validateTimeSlot(startDate, validDate)
    IN  IF ~validation.isValid
        THEN ExtOutcome(validation.errorMessage, <<onEndDateChange(NULL)>>, date)
        ELSE IF validDate - startDate < 1000 * 60 * 60
        THEN ExtOutcome(MinExtensionMsg, <<onEndDateChange(NULL)>>, date)
        ELSE ExtOutcome(NoToast, <<onEndDateChange(validDate)>>, validDate)

\* ExtendDateTimeRangePicker.handleEndChange, date-only branch (lines 332-369)
Ext_handleEndChangeDateOnly(date) ==
    LET validDate0 == IF isSameDay(date, startDate)
                      THEN startDate + 60 * 60 * 1000
                      ELSE Ext_getOptimalEndTime(date)
        validDate == Ext_enforceStrict15Minutes(validDate0)
        validation == Ext_validateTimeSlot(startDate, validDate)
    IN  IF ~validation.isValid
        THEN ExtOutcome(validation.errorMessage, <<>>, date)
        ELSE IF validDate - startDate < 1000 * 60 * 60
        THEN ExtOutcome(MinExtensionMsg, <<>>, date)
        ELSE ExtOutcome(NoToast, <<onEndDateChange(validDate)>>, validDate)

\* mutant: the one-hour minimum of a time selection is not checked
Ext_handleEndChangeTime_noMinimum(date) ==
    LET validDate0 == Ext_enforceStrict15Minutes(date)
        minEndTime == startDate + 60 * 60 * 1000
        validDate == IF isSameDay(validDate0, startDate) /\ validDate0 < minEndTime
                     THEN minEndTime
                     ELSE validDate0
        validation == Ext_validateTimeSlot(startDate, validDate)
    IN  IF isSameDay(validDate0, startDate) /\ endDate # NULL /\ validDate0 = endDate
        THEN ExtOutcome(NoToast, <<>>, viewedDateInCalendar)
        ELSE IF ~validation.isValid
        THEN ExtOutcome(validation.errorMessage, <<>>, viewedDateInCalendar)
        ELSE ExtOutcome(NoToast, <<onEndDateChange(validDate)>>, validDate)

\* ExtendDateTimeRangePicker.handleEndChange, time selection (lines 371-408)
Ext_handleEndChangeTime(date) ==
    LET validDate0 == Ext_enforceStrict15Minutes(date)
        minEndTime == startDate + 60 * 60 * 1000
        validDate == IF isSameDay(validDate0, startDate) /\ validDate0 < minEndTime
                     THEN minEndTime
                     ELSE validDate0
        validation == Ext_validateTimeSlot(startDate, validDate)
    IN  IF isSameDay(validDate0, startDate) /\ endDate # NULL /\ validDate0 = endDate
        THEN ExtOutcome(NoToast, <<>>, viewedDateInCalendar)
        ELSE IF ~validation.isValid
        THEN ExtOutcome(validation.errorMessage, <<>>, viewedDateInCalendar)
        ELSE IF validDate - startDate < 1000 * 60 * 60
        THEN ExtOutcome(MinExtensionMsg, <<>>, viewedDateInCalendar)
        ELSE ExtOutcome(NoToast, <<onEndDateChange(validDate)>>, validDate)

\* ExtendDateTimeRangePicker.handleEndChange
Ext_handleEndChangeOutcome(date) ==
    IF date = NULL
    THEN ExtOutcome(NoToast, <<onEndDateChange(NULL)>>, NULL)
    ELSE IF startDate = NULL
    THEN ExtOutcome(StartRequiredMsg, <<>>, viewedDateInCalendar)
    ELSE IF isDateOnlySelection(date)
    THEN Ext_handleEndChangeDateOnly(date)
    ELSE Ext_handleEndChangeTime(date)

\* ------------------------------------------------------------- BookingForm
MissingInfoMsg == "Please fill in all required fields"
InvalidRangeMsg == "End time must be after start time"
TooLongMsg == "Booking of more than 24 hours should not be allowed. If required, please contact admin via whatsapp."

\* Date.prototype.toISOString: the UTC calendar fields of the instant
toISOString(d) ==
    [day |-> DayOf(d), h |-> getHours(d), mi |-> getMinutes(d),
     s |-> getSeconds(d), ms |-> getMilliseconds(d)]

HomePage == [path |-> "/", params |-> <<>>]
LoginPage == [path |-> "/login", params |-> <<>>]

\* BookingForm.handleContinueToBooking: the route it pushes
handleContinueToBooking ==
    [path |-> "/book-now",
     params |-> [location |-> "kovan",
                 people |-> people,
                 start |-> toISOString(startDate),
                 end |-> toISOString(endDate),
                 coWorkers |-> peopleBreakdown.coWorkers,
                 coTutors |-> peopleBreakdown.coTutors,
                 coStudents |-> peopleBreakdown.coStudents]]

\* mutant: the 24-hour limit is not checked
handleBookNowOutcome_noMaximum ==
    IF startDate = NULL \/ endDate = NULL
    THEN [toast |-> MissingInfoMsg, route |-> route]
    ELSE IF endDate <= startDate
    THEN [toast |-> InvalidRangeMsg, route |-> route]
    ELSE IF endDate - startDate < 60 * (1000 * 60)
    THEN [toast |-> MinDurationMsg, route |-> route]
    ELSE IF user = NULL
    THEN [toast |-> NoToast, route |-> LoginPage]
    ELSE [toast |-> NoToast, route |-> handleContinueToBooking]

\* BookingForm.handleBookNow: the toast it raises and the route it leaves
handleBookNowOutcome ==
    IF startDate = NULL \/ endDate = NULL
    THEN [toast |-> MissingInfoMsg, route |-> route]
    ELSE IF endDate <= startDate
    THEN [toast |-> InvalidRangeMsg, route |-> route]
    ELSE IF endDate - startDate < 60 * (1000 * 60)
    THEN [toast |-> MinDurationMsg, route |-> route]
    ELSE IF endDate - startDate > 24 * (1000 * 60 * 60)
    THEN [toast |-> TooLongMsg, route |-> route]
    ELSE IF user = NULL
    THEN [toast |-> NoToast, route |-> LoginPage]
    ELSE [toast |-> NoToast, route |-> handleContinueToBooking]

\* ------------------------------------------------------------ environment
Row(dow, oh, om, ch, cm, active) ==
    [dayOfWeek |-> dow, openTime |-> TimeStr(oh, om, 0),
     closeTime |-> TimeStr(ch, cm, 0), isActive |-> active]

\* the same active row on every weekday
EveryDay(oh, om, ch, cm) == [i \in 1..7 |-> Row(i - 1, oh, om, ch, cm, TRUE)]

\* 09:00-18:00 every day: no overnight booking
HoursDay == EveryDay(9, 0, 18, 0)
\* 00:00-23:59 every day: overnight booking offered
HoursLate == EveryDay(0, 0, 23, 59)
\* Thursday has only an inactive row; Friday an inactive row before its
\* active one, opening off the quarter hour; the other weekdays have no row
HoursOdd == << Row(4, 9, 0, 18, 0, FALSE),
               Row(5, 8, 0, 12, 0, FALSE),
               Row(5, 9, 10, 18, 0, TRUE) >>

\* open around the clock on Thursday only: the other weekdays have no row
HoursThursday == << Row(4, 0, 0, 23, 59, TRUE) >>

\* what getOperatingHours(location) may resolve to
ServerHours == {HoursDay, HoursLate, HoursOdd, HoursThursday}

Closure(s, e, active) == [startDate |-> s, endDate |-> e, isActive |-> active]
NoClosures == <<>>
ActiveClosure == << Closure(MkDate(0, 11, 0, 0, 0), MkDate(0, 13, 0, 0, 0), TRUE) >>
InactiveClosure == << Closure(MkDate(0, 11, 0, 0, 0), MkDate(0, 13, 0, 0, 0), FALSE) >>

\* what getClosureDates(location) may resolve to
ServerClosures == {NoClosures, ActiveClosure, InactiveClosure}

\* the clock readings the model visits
NowSet == {MkDate(0, 8, 20, 0, 0), MkDate(0, 10, 7, 30, 500)}

\* times of day a DatePicker hands to onChange / onSelect; 00:00:00 is a
\* click on a calendar day
PickTimes == { <<0, 0, 0, 0>>, <<0, 15, 0, 0>>, <<9, 0, 0, 0>>, <<10, 0, 0, 0>>,
               <<10, 30, 0, 0>>, <<10, 37, 30, 500>>, <<11, 0, 0, 0>>,
               <<18, 0, 0, 0>>, <<23, 30, 0, 0>> }
\* the times of day picked on the days after day 0
LaterPickTimes == { <<0, 0, 0, 0>>, <<0, 15, 0, 0>>, <<9, 0, 0, 0>>,
                    <<11, 0, 0, 0>>, <<23, 30, 0, 0>> }
Picks == { MkDate(0, t[1], t[2], t[3], t[4]) : t \in PickTimes }
         \cup { MkDate(d, t[1], t[2], t[3], t[4]) : d \in 1..MaxDay, t \in LaterPickTimes }

\* the start picker has minDate = new Date() (line 1372)
StartPicks == { d \in Picks : DayOf(d) >= DayOf(now) }
\* the end pickers have minDate = startDate (lines 1183-1188, 411-417)
EndPicks == { d \in Picks : DayOf(d) >= (IF startDate = NULL THEN DayOf(now)
                                         ELSE DayOf(startDate)) }

\* the startDate prop of a mounted ExtendDateTimeRangePicker
ExtStarts == {NULL, MkDate(0, 10, 0, 0, 0), MkDate(0, 23, 30, 0, 0)}

NoProbe == [fn |-> "none", args |-> <<>>, base |-> FALSE, ext |-> FALSE]
Mounted == [op |-> "mount", arg |-> NULL]

\* ------------------------------------------------------------------- Init
\* the state after the first render and its effects: the load effect has
\* called loadShopHours once, whose fetch is in flight
Init ==
    /\ now \in NowSet
    /\ picker \in {"DateTimeRangePicker", "ExtendDateTimeRangePicker"}
    /\ props = [operatingHours |-> UNDEFINED, closureDates |-> UNDEFINED]
    /\ location = "Kovan"
    /\ issued = 1
    /\ operatingHours = <<>>
    /\ closureDates = <<>>
    /\ isLoadingShopHours = TRUE
    /\ inflight = <<"Kovan">>
    /\ startDate \in (IF picker = "DateTimeRangePicker" THEN {NULL} ELSE ExtStarts)
    /\ endDate = NULL
    /\ viewedDateInCalendar = NULL
    /\ user \in (IF picker = "DateTimeRangePicker" THEN {NULL, 1} ELSE {NULL})
    /\ route = HomePage
    /\ people = 1
    /\ peopleBreakdown = [coWorkers |-> 1, coTutors |-> 0, coStudents |-> 0, total |-> 1]
    /\ toastMsg = NoToast
    /\ calls = <<>>
    /\ lastOp = Mounted
    /\ probe = NoProbe
    /\ AuthAtRest

envVars == <<picker, props, location, issued, people, peopleBreakdown, probe, authVars>>
loadVars == <<operatingHours, closureDates, isLoadingShopHours, inflight>>
histVars == <<toastMsg, calls, lastOp>>

OnPage == route = HomePage

\* ---------------------------------------------------------------- actions
\* a step that is no handler of the page: it raises no toast and calls no
\* callback
Step(op) ==
    /\ lastOp' = [op |-> op, arg |-> NULL]
    /\ toastMsg' = NoToast
    /\ calls' = <<>>

\* time passes
Tick ==
    /\ OnPage
    /\ \E t \in NowSet : t > now /\ now' = t
    /\ Step("tick")
    /\ UNCHANGED <<envVars, loadVars, startDate, endDate,
                   viewedDateInCalendar, user, route>>

RemoveAt(q, i) == SubSeq(q, 1, i - 1) \o SubSeq(q, i + 1, Len(q))

\* loadShopHours: both fetches resolve (try block, then finally)
LoadResolve ==
    /\ OnPage
    /\ \E i \in 1..Len(inflight), hours \in ServerHours, closures \in ServerClosures :
        /\ operatingHours' = hours
        /\ closureDates' = closures
        /\ isLoadingShopHours' = FALSE
        /\ inflight' = RemoveAt(inflight, i)
    /\ Step("loadShopHours")
    /\ UNCHANGED <<now, envVars, startDate, endDate,
                   viewedDateInCalendar, user, route>>

\* loadShopHours: a fetch rejects (catch block, then finally)
LoadReject ==
    /\ OnPage
    /\ \E i \in 1..Len(inflight) :
        /\ isLoadingShopHours' = FALSE
        /\ inflight' = RemoveAt(inflight, i)
    /\ Step("loadShopHours")
    /\ UNCHANGED <<now, envVars, operatingHours, closureDates,
                   startDate, endDate, viewedDateInCalendar, user, route>>

\* the parent applies the callbacks a picker handler made
ApplyOutcome(op, date, out) ==
    /\ startDate' = lastArg(out.calls, "onStartDateChange", startDate)
    /\ endDate' = lastArg(out.calls, "onEndDateChange", endDate)
    /\ toastMsg' = out.toast
    /\ calls' = out.calls
    /\ lastOp' = [op |-> op, arg |-> date]

HandleDateSelect ==
    /\ OnPage /\ picker = "DateTimeRangePicker"
    /\ \E date \in StartPicks :
        ApplyOutcome("handleDateSelect", date, handleDateSelectOutcome(date))
    /\ UNCHANGED <<now, envVars, loadVars, viewedDateInCalendar, user, route>>

HandleStartChange ==
    /\ OnPage /\ picker = "DateTimeRangePicker"
    /\ \E date \in StartPicks \cup {NULL} :
        ApplyOutcome("handleStartChange", date, handleStartChangeOutcome(date))
    /\ UNCHANGED <<now, envVars, loadVars, viewedDateInCalendar, user, route>>

HandleEndChange ==
    /\ OnPage /\ picker = "DateTimeRangePicker"
    /\ \E date \in EndPicks \cup {NULL} :
        ApplyOutcome("handleEndChange", date, handleEndChangeOutcome(date))
    /\ UNCHANGED <<now, envVars, loadVars, viewedDateInCalendar, user, route>>

ExtHandleEndChange ==
    /\ OnPage /\ picker = "ExtendDateTimeRangePicker"
    /\ \E date \in EndPicks \cup {NULL} :
        LET out == Ext_handleEndChangeOutcome(date)
        IN  /\ ApplyOutcome("Ext.handleEndChange", date, out)
            /\ viewedDateInCalendar' = out.viewed
    /\ UNCHANGED <<now, envVars, loadVars, user, route>>

HandleBookNow ==
    /\ OnPage /\ picker = "DateTimeRangePicker"
    /\ LET out == handleBookNowOutcome
       IN  /\ route' = out.route
           /\ toastMsg' = out.toast
           /\ calls' = <<>>
           /\ lastOp' = [op |-> "handleBookNow", arg |-> NULL]
    /\ UNCHANGED <<now, envVars, loadVars, startDate, endDate,
                   viewedDateInCalendar, user>>

\* useAuth reports a sign-in or a sign-out
AuthChange ==
    /\ OnPage /\ picker = "DateTimeRangePicker"
    /\ user' = (IF user = NULL THEN 1 ELSE NULL)
    /\ Step("authChange")
    /\ UNCHANGED <<now, envVars, loadVars, startDate, endDate,
                   viewedDateInCalendar, route>>

Next ==
    \/ Tick
    \/ LoadResolve
    \/ LoadReject
    \/ HandleDateSelect
    \/ HandleStartChange
    \/ HandleEndChange
    \/ ExtHandleEndChange
    \/ HandleBookNow
    \/ AuthChange

Spec == Init /\ [][Next]_vars

\* ------------------------------------------- the validation helpers alone
\* operating-hours tables the helpers are applied to
FnHours == ServerHours \cup {<<>>}
\* closure tables the helpers are applied to
MixedClosures == << Closure(MkDate(0, 11, 0, 0, 0), MkDate(0, 13, 0, 0, 0), FALSE),
                    Closure(MkDate(0, 17, 0, 0, 0), MkDate(MaxDay, 9, 0, 0, 0), TRUE) >>
\* a closure over several days that begins and ends inside the hours
MultiDayClosure == << Closure(MkDate(0, 17, 0, 0, 0), MkDate(2, 9, 0, 0, 0), TRUE) >>
\* a closure of the whole of day 1
FullDayClosure == << Closure(MkDate(1, 0, 0, 0, 0), MkDate(1, 23, 59, 0, 0), TRUE) >>
FnClosures == ServerClosures \cup {MixedClosures, MultiDayClosure, FullDayClosure}

\* times of day around the opening, closing, grace and closure boundaries
FnTimesOfDay == { <<0, 0, 0, 0>>, <<8, 54, 59, 999>>, <<8, 55, 0, 0>>, <<9, 0, 0, 0>>,
                  <<9, 5, 0, 0>>, <<9, 9, 59, 999>>, <<9, 10, 0, 0>>, <<11, 0, 0, 0>>,
                  <<13, 0, 0, 0>>, <<18, 0, 0, 0>>, <<18, 0, 59, 999>>, <<18, 1, 0, 0>>,
                  <<18, 5, 0, 0>>, <<18, 5, 0, 1>>, <<23, 59, 59, 999>> }
FnTimes == { MkDate(d, t[1], t[2], t[3], t[4]) : d \in 0..MaxDay, t \in FnTimesOfDay }

InitFn ==
    /\ now \in NowSet
    /\ picker = "none"
    /\ props = [operatingHours |-> UNDEFINED, closureDates |-> UNDEFINED]
    /\ location = "Kovan"
    /\ issued = 0
    /\ operatingHours \in FnHours
    /\ closureDates \in FnClosures
    /\ isLoadingShopHours = FALSE
    /\ inflight = <<>>
    /\ startDate = NULL
    /\ endDate = NULL
    /\ viewedDateInCalendar = NULL
    /\ user = NULL
    /\ route = HomePage
    /\ people = 1
    /\ peopleBreakdown = [coWorkers |-> 1, coTutors |-> 0, coStudents |-> 0, total |-> 1]
    /\ toastMsg = NoToast
    /\ calls = <<>>
    /\ lastOp = Mounted
    /\ probe = NoProbe
    /\ AuthAtRest

\* a helper is applied once to the tables drawn by InitFn: it keeps no state
fnFrame == <<now, picker, props, location, issued, operatingHours, closureDates, isLoadingShopHours,
             inflight, startDate, endDate, viewedDateInCalendar, user, route,
             people, peopleBreakdown, toastMsg, calls, lastOp, authVars>>

ApplyIsTimeWithinShopHours ==
    /\ probe = NoProbe
    /\ \E t \in FnTimes :
        probe' = [fn |-> "isTimeWithinShopHours", args |-> <<t>>,
                  base |-> isTimeWithinShopHours(t),
                  ext |-> Ext_isTimeWithinShopHours(t)]
    /\ UNCHANGED fnFrame

ApplyIsTimeSlotInClosure ==
    /\ probe = NoProbe
    /\ \E s \in FnTimes, e \in FnTimes :
        /\ s < e
        /\ probe' = [fn |-> "isTimeSlotInClosure", args |-> <<s, e>>,
                     base |-> isTimeSlotInClosure(s, e),
                     ext |-> Ext_isTimeSlotInClosure(s, e)]
    /\ UNCHANGED fnFrame

ApplyIsTimeWithinShopHoursWithGrace ==
    /\ probe = NoProbe
    /\ \E t \in FnTimes, isOvernight \in BOOLEAN :
        probe' = [fn |-> "isTimeWithinShopHoursWithGrace", args |-> <<t, isOvernight>>,
                  base |-> isTimeWithinShopHoursWithGrace(t, isOvernight),
                  ext |-> Ext_isTimeWithinShopHours(t)]
    /\ UNCHANGED fnFrame

ApplyValidateTimeSlot ==
    /\ probe = NoProbe
    /\ \E s \in FnTimes, e \in FnTimes :
        /\ s < e
        /\ probe' = [fn |-> "validateTimeSlot", args |-> <<s, e>>,
                     base |-> validateTimeSlot(s, e).isValid,
                     ext |-> Ext_validateTimeSlot(s, e).isValid]
    /\ UNCHANGED fnFrame

ApplyGetExcludedDates ==
    /\ probe = NoProbe
    /\ probe' = [fn |-> "getExcludedDates", args |-> <<>>,
                 base |-> getExcludedDates,
                 ext |-> Ext_getExcludedDates]
    /\ UNCHANGED fnFrame

ApplyGetAvailableTimes ==
    /\ probe = NoProbe
    /\ \E date \in FnTimes :
        probe' = [fn |-> "getAvailableTimes", args |-> <<date>>,
                  base |-> getAvailableTimes(date),
                  ext |-> Ext_getAvailableTimes(date)]
    /\ UNCHANGED fnFrame

\* timestamps handed to the snapping helpers: any minute, second and
\* millisecond, among them ones whose ceiling is in the next hour or day
SnapTimes == FnTimes \cup NowSet \cup
             { MkDate(d, 10, 50, 20, 0) : d \in 0..MaxDay }

ApplyEnforceStrict15Minutes ==
    /\ probe = NoProbe
    /\ \E date \in SnapTimes :
        probe' = [fn |-> "enforceStrict15Minutes", args |-> <<date>>,
                  base |-> enforceStrict15Minutes(date),
                  ext |-> Ext_enforceStrict15Minutes(date)]
    /\ UNCHANGED fnFrame

ApplyRoundUpToNext15Minutes ==
    /\ probe = NoProbe
    /\ \E date \in SnapTimes :
        probe' = [fn |-> "roundUpToNext15Minutes", args |-> <<date>>,
                  base |-> roundUpToNext15Minutes(date),
                  ext |-> Ext_roundUpToNext15Minutes(date)]
    /\ UNCHANGED fnFrame

NextFn ==
    \/ ApplyGetExcludedDates
    \/ ApplyGetAvailableTimes
    \/ ApplyEnforceStrict15Minutes
    \/ ApplyRoundUpToNext15Minutes
    \/ ApplyIsTimeWithinShopHours
    \/ ApplyIsTimeSlotInClosure
    \/ ApplyIsTimeWithinShopHoursWithGrace
    \/ ApplyValidateTimeSlot

SpecFn == InitFn /\ [][NextFn]_vars

\* ------------------------------------------------ the load effect alone
\* a picker under a parent that changes its location and table props
Locations == {"Kovan", "Orchard"}

\* what getOperatingHours(loc) and getClosureDates(loc) resolve to
ServerTables(loc) ==
    IF loc = "Kovan" THEN [hours |-> HoursDay, closures |-> ActiveClosure]
                     ELSE [hours |-> HoursLate, closures |-> NoClosures]

\* the table props a parent may pass; ExtendDateTimeRangePicker has none
PropsOf(p) ==
    IF p = "DateTimeRangePicker"
    THEN [operatingHours : {UNDEFINED, <<HoursDay>>},
          closureDates : {UNDEFINED, <<NoClosures>>}]
    ELSE {[operatingHours |-> UNDEFINED, closureDates |-> UNDEFINED]}

\* if (propOperatingHours !== undefined && propClosureDates !== undefined) return
skipsFetch(p) == p.operatingHours # UNDEFINED /\ p.closureDates # UNDEFINED

\* the state after the first render and its effects
InitLoad ==
    /\ now \in NowSet
    /\ picker \in {"DateTimeRangePicker", "ExtendDateTimeRangePicker"}
    /\ props \in PropsOf(picker)
    /\ location \in Locations
    /\ issued = (IF skipsFetch(props) THEN 0 ELSE 1)
    /\ operatingHours = <<>>
    /\ closureDates = <<>>
    /\ isLoadingShopHours = ~skipsFetch(props)
    /\ inflight = (IF skipsFetch(props) THEN <<>> ELSE <<location>>)
    /\ startDate = NULL
    /\ endDate = NULL
    /\ viewedDateInCalendar = NULL
    /\ user = NULL
    /\ route = HomePage
    /\ people = 1
    /\ peopleBreakdown = [coWorkers |-> 1, coTutors |-> 0, coStudents |-> 0, total |-> 1]
    /\ toastMsg = NoToast
    /\ calls = <<>>
    /\ lastOp = Mounted
    /\ probe = NoProbe
    /\ AuthAtRest

\* what the load effect never touches
loadFrame == <<now, picker, startDate, endDate, viewedDateInCalendar, user, route,
               people, peopleBreakdown, probe, authVars>>

\* mutant: the effect fetches even when both tables are props
loadEffect_noSkip(p, loc) ==
    /\ isLoadingShopHours' = TRUE
    /\ inflight' = Append(inflight, loc)
    /\ issued' = issued + 1

\* the load effect, run after a render with props p and location loc in
\* which one of its dependencies changed: it returns when both tables are
\* props, and otherwise calls loadShopHours, which sets the loading flag
\* and starts the two fetches
loadEffect(p, loc) ==
    IF skipsFetch(p)
    THEN UNCHANGED <<isLoadingShopHours, inflight, issued>>
    ELSE /\ isLoadingShopHours' = TRUE
         /\ inflight' = Append(inflight, loc)
         /\ issued' = issued + 1

\* the parent passes another location
LocationChange ==
    /\ issued < MaxFetches
    /\ \E loc \in Locations \ {location} :
        /\ location' = loc
        /\ loadEffect(props, loc)
    /\ Step("locationChange")
    /\ UNCHANGED <<loadFrame, props, operatingHours, closureDates>>

\* the parent passes other table props
PropsChange ==
    /\ issued < MaxFetches
    /\ \E p \in PropsOf(picker) \ {props} :
        /\ props' = p
        /\ loadEffect(p, location)
    /\ Step("propsChange")
    /\ UNCHANGED <<loadFrame, location, operatingHours, closureDates>>

\* Promise.all of a loadShopHours call resolves: try block, then finally
FetchResolve ==
    /\ \E i \in 1..Len(inflight) :
        /\ operatingHours' = ServerTables(inflight[i]).hours
        /\ closureDates' = ServerTables(inflight[i]).closures
        /\ isLoadingShopHours' = FALSE
        /\ inflight' = RemoveAt(inflight, i)
    /\ Step("fetchResolved")
    /\ UNCHANGED <<loadFrame, props, location, issued>>

\* Promise.all of a loadShopHours call rejects: catch block, then finally
FetchReject ==
    /\ \E i \in 1..Len(inflight) :
        /\ isLoadingShopHours' = FALSE
        /\ inflight' = RemoveAt(inflight, i)
    /\ Step("fetchRejected")
    /\ UNCHANGED <<loadFrame, props, location, issued, operatingHours, closureDates>>

NextLoad ==
    \/ LocationChange
    \/ PropsChange
    \/ FetchResolve
    \/ FetchReject

SpecLoad == InitLoad /\ [][NextLoad]_vars

\* ================================================================== claims
\* vocabulary of the claims, stated on minutes and milliseconds of the day
BasePicker == picker = "DateTimeRangePicker"
msOfDay(d) == d % MsPerDay
minuteOfDay(d) == msOfDay(d) \div MsPerMinute
openMinute(row) == splitColon(row.openTime)[1] * 60 + splitColon(row.openTime)[2]
closeMinute(row) == splitColon(row.closeTime)[1] * 60 + splitColon(row.closeTime)[2]
\* the active rows of the weekday of d
ActiveRowsOn(d) ==
    { i \in 1..Len(operatingHours) :
        operatingHours[i].dayOfWeek = getDay(d) /\ operatingHours[i].isActive }
OnQuarterHour(d) == d % (15 * MsPerMinute) = 0
WithinHours(d) ==
    \E i \in ActiveRowsOn(d) :
        /\ openMinute(operatingHours[i]) <= minuteOfDay(d)
        /\ minuteOfDay(d) <= closeMinute(operatingHours[i])
EndHandlerRan(op) == lastOp.op = op /\ lastOp.arg # NULL /\ startDate # NULL

\* C1: every non-null end DateTimeRangePicker passes to onEndDateChange is
\* at least 60 minutes after the current start, and start and end are on
\* quarter hours with zero seconds and milliseconds.
C1_AcceptedWindow ==
    (BasePicker /\ lastOp.op = "handleEndChange") =>
        \A i \in 1..Len(calls) :
            (calls[i].cb = "onEndDateChange" /\ calls[i].arg # NULL) =>
                /\ startDate # NULL
                /\ calls[i].arg - startDate >= 60 * MsPerMinute
                /\ OnQuarterHour(startDate)
                /\ OnQuarterHour(calls[i].arg)

\* C2: the base picker's isTimeSlotInClosure rejects a span [s, e) iff some
\* ACTIVE closure c has s < c.end and e > c.start.
C2_ClosureOverlapActiveOnly ==
    probe.fn = "isTimeSlotInClosure" =>
        (probe.base <=>
            \E i \in 1..Len(closureDates) :
                /\ closureDates[i].isActive
                /\ probe.args[1] < closureDates[i].endDate
                /\ probe.args[2] > closureDates[i].startDate)

\* a time pick on the day of start that snaps to less than start + 60 minutes
ShortSameDayPick ==
    /\ BasePicker
    /\ EndHandlerRan("handleEndChange")
    /\ ~isDateOnlySelection(lastOp.arg)
    /\ DayOf(lastOp.arg) = DayOf(startDate)
    /\ lastOp.arg - (lastOp.arg % (15 * MsPerMinute)) < startDate + 60 * MsPerMinute

StartDayClosesEarly ==
    \A i \in ActiveRowsOn(startDate) : closeMinute(operatingHours[i]) < 23 * 60 + 55

C5_GraceOnlyOvernight ==
    probe.fn = "isTimeWithinShopHoursWithGrace" =>
        LET t == probe.args[1]
            isOvernight == probe.args[2]
        IN  probe.base <=>
              \E i \in ActiveRowsOn(t) :
                LET open == openMinute(operatingHours[i]) * MsPerMinute
                    close == closeMinute(operatingHours[i]) * MsPerMinute
                IN  \/ WithinHours(t)
                    \/ /\ isOvernight
                       /\ \/ (msOfDay(t) > close /\ msOfDay(t) - close <= 5 * MsPerMinute)
                          \/ (msOfDay(t) < open /\ open - msOfDay(t) <= 5 * MsPerMinute)

\* an overnight time inside the grace after closing, accepted; 18:05 on a
\* day closing at 18:00
C5_Witness ==
    /\ probe.fn = "isTimeWithinShopHoursWithGrace"
    /\ operatingHours = HoursDay
    /\ probe.args = <<MkDate(0, 18, 5, 0, 0), TRUE>>
    /\ probe.base

\* a pick on the day of start, at least 60 minutes after it, with both ends
\* on quarter hours and inside the hours of the day, that no closure overlaps
ValidSameDayPick ==
    /\ BasePicker
    /\ EndHandlerRan("handleEndChange")
    /\ DayOf(lastOp.arg) = DayOf(startDate)
    /\ OnQuarterHour(startDate) /\ OnQuarterHour(lastOp.arg)
    /\ WithinHours(startDate) /\ WithinHours(lastOp.arg)
    /\ lastOp.arg - startDate >= 60 * MsPerMinute
    /\ ~\E i \in 1..Len(closureDates) :
          /\ startDate < closureDates[i].endDate
          /\ lastOp.arg > closureDates[i].startDate

\* C6 as stated: handleEndChange calls onEndDateChange with exactly the
\* picked end for every valid same-day pick.
C6_ValidPickEmitted ==
    ValidSameDayPick => calls = <<onEndDateChange(lastOp.arg)>>

\* C6 amended: after handleEndChange on a valid same-day pick the committed
\* end is exactly the picked end and no toast is raised; onEndDateChange is
\* called with the picked end, except that picking the end that is already
\* committed returns without any call.
C6_ValidPickCommitted ==
    ValidSameDayPick =>
        /\ endDate = lastOp.arg
        /\ toastMsg = NoToast
        /\ calls \in {<<onEndDateChange(lastOp.arg)>>, <<>>}

C6_Witness ==
    /\ ValidSameDayPick
    /\ operatingHours = HoursDay
    /\ startDate = MkDate(0, 10, 0, 0, 0)
    /\ lastOp.arg = MkDate(0, 11, 0, 0, 0)
    /\ calls = <<onEndDateChange(MkDate(0, 11, 0, 0, 0))>>

\* C7: isTimeWithinShopHours(t) holds iff the weekday of t has an active row
\* with open <= timeOfDay(t) <= close, at minute precision and with both
\* bounds included; both pickers compute the same result.
C7_WithinShopHours ==
    probe.fn = "isTimeWithinShopHours" =>
        /\ probe.base <=> WithinHours(probe.args[1])
        /\ probe.ext <=> probe.base

\* the closing minute itself, seconds into it, is within hours
C7_Witness ==
    /\ probe.fn = "isTimeWithinShopHours"
    /\ operatingHours = HoursDay
    /\ probe.args = <<MkDate(0, 18, 0, 59, 999)>>
    /\ probe.base /\ probe.ext

EndHandlers == {"handleEndChange", "Ext.handleEndChange"}

\* C8: a handleEndChange of either picker that rejects a non-null end (it
\* raises a toast) calls no callback, and start and end stay as they were.
C8_RejectionKeepsSelection ==
    [][(lastOp'.op \in EndHandlers /\ lastOp'.arg # NULL /\ toastMsg' # NoToast)
          => (calls' = <<>> /\ startDate' = startDate /\ endDate' = endDate)]_vars

\* a rejected pick in the extension picker with an end committed before
C8_Witness ==
    /\ lastOp.op = "Ext.handleEndChange"
    /\ lastOp.arg # NULL
    /\ toastMsg = UnableToBookMsg
    /\ endDate # NULL
    /\ calls = <<>>

\* the window handleBookNow accepts
ValidWindow ==
    /\ startDate # NULL /\ endDate # NULL
    /\ endDate > startDate
    /\ endDate - startDate >= 60 * MsPerMinute
    /\ endDate - startDate <= 24 * MsPerHour

\* C9: handleBookNow navigates to /book-now, carrying start and end as ISO
\* strings and the headcount, only for a valid window with a user signed in;
\* an invalid window raises a toast and stays on the page whether or not a
\* user is signed in, a valid window without a user goes to /login.
C9_BookNowNavigation ==
    /\ route.path = "/book-now" =>
        /\ lastOp.op = "handleBookNow"
        /\ ValidWindow /\ user # NULL
        /\ route.params.start = toISOString(startDate)
        /\ route.params.end = toISOString(endDate)
        /\ route.params.people = people
        /\ route.params.coWorkers = peopleBreakdown.coWorkers
        /\ route.params.coTutors = peopleBreakdown.coTutors
        /\ route.params.coStudents = peopleBreakdown.coStudents
    /\ lastOp.op = "handleBookNow" =>
        /\ ~ValidWindow => (route = HomePage /\ toastMsg # NoToast)
        /\ (ValidWindow /\ user = NULL) => (route = LoginPage /\ toastMsg = NoToast)
        /\ (ValidWindow /\ user # NULL) => route.path = "/book-now"

C9_Witness ==
    /\ route.path = "/book-now"
    /\ user # NULL
    /\ route.params.start = toISOString(MkDate(0, 10, 0, 0, 0))
    /\ route.params.end = toISOString(MkDate(0, 11, 0, 0, 0))

\* the start the claim derives for a click on calendar day `date`
ExpectedStart(date) ==
    LET rows == { i \in 1..Len(operatingHours) :
                    operatingHours[i].dayOfWeek = getDay(date)
                    /\ operatingHours[i].isActive }
        midnight == DayOf(date) * MsPerDay
    IN  IF rows = {}
        THEN midnight + 9 * MsPerHour
        ELSE LET row == operatingHours[CHOOSE i \in rows : TRUE]
                 opening == midnight + openMinute(row) * MsPerMinute
                 snapped == roundUpToNext15Minutes(now)
             IN  IF DayOf(date) = DayOf(now)
                 THEN IF snapped < opening THEN opening ELSE snapped
                 ELSE opening

\* C10: a date-only start pick emits ceiling-snap(now) today (the opening
\* time when that is before opening), the opening time on a future day, and
\* 09:00 when the weekday has no active row, for every opening time.
C10_DateOnlyStart ==
    (/\ lastOp.op \in {"handleDateSelect", "handleStartChange"}
     /\ lastOp.arg # NULL
     /\ isDateOnlySelection(lastOp.arg))
        => (startDate = ExpectedStart(lastOp.arg)
            /\ calls[Len(calls) - 1] = onStartDateChange(ExpectedStart(lastOp.arg)))

\* the end C11 derives for a date-only pick on the calendar day of start
ExpectedSameDayEnd ==
    LET minEnd == startDate + 60 * MsPerMinute
        snapped == roundUpToNext15Minutes(now)
    IN  IF DayOf(startDate) = DayOf(now) /\ minEnd < now
        THEN IF snapped > minEnd THEN snapped ELSE minEnd
        ELSE minEnd

\* C11: for a date-only end pick on the calendar day of start, the end that
\* handleEndChange of either picker proposes (and passes to onEndDateChange
\* when it accepts it) is start + 60 minutes, bumped to
\* max(ceiling-snap(now), start + 60 minutes) when that day is today and
\* start + 60 minutes is already in the past.
C11_SameDayDateOnlyEnd ==
    (/\ lastOp.op \in EndHandlers
     /\ lastOp.arg # NULL /\ startDate # NULL
     /\ isDateOnlySelection(lastOp.arg)
     /\ DayOf(lastOp.arg) = DayOf(startDate)
     /\ calls # <<>>)
        => calls = <<onEndDateChange(ExpectedSameDayEnd)>>

\* a click on a calendar day after the day of start whose weekday has no
\* active operating-hours row
LaterDayWithoutRow ==
    /\ BasePicker
    /\ EndHandlerRan("handleEndChange")
    /\ isDateOnlySelection(lastOp.arg)
    /\ DayOf(lastOp.arg) > DayOf(startDate)
    /\ ActiveRowsOn(lastOp.arg) = {}

\* C12: a date-only end pick on a later calendar day whose weekday has no
\* active operating-hours row derives 09:00 of that day as the end, which
\* slot validation rejects, with or without grace: handleEndChange raises
\* the shop-closed toast and commits no end.
C12_NoRowLaterDayRejected ==
    LaterDayWithoutRow =>
        LET fallback == MkDate(DayOf(lastOp.arg), 9, 0, 0, 0)
        IN  /\ getOptimalEndTime(lastOp.arg) = fallback
            /\ ~isTimeWithinShopHoursWithGrace(fallback, TRUE)
            /\ ~isTimeWithinShopHoursWithGrace(fallback, FALSE)
            /\ ~validateTimeSlot(startDate, fallback).isValid
            /\ toastMsg = ShopClosedMsg
            /\ calls = <<>>

\* start inside Thursday's hours, which permit an overnight booking, and a
\* click on Friday, which has no row: only the end fails validation
C12_Witness ==
    /\ LaterDayWithoutRow
    /\ operatingHours = HoursThursday
    /\ startDate = MkDate(0, 23, 30, 0, 0)
    /\ lastOp.arg = MkDate(1, 0, 0, 0, 0)
    /\ isTimeWithinShopHoursWithGrace(startDate, TRUE)
    /\ ~overnightBlocked
    /\ toastMsg = ShopClosedMsg
    /\ calls = <<>>

\* the elements of a sequence
Range(s) == { s[i] : i \in 1..Len(s) }

\* closure c covers what has to be closed for calendar day `day` to be closed
\* whole: from opening to closing of the weekday's active row, or from 00:00
\* to 23:59 when the weekday has no active row
CoversDay(c, day) ==
    LET midnight == day * MsPerDay
        rows == ActiveRowsOn(midnight)
    IN  IF rows = {}
        THEN c.startDate <= midnight /\ c.endDate >= midnight + 1439 * MsPerMinute
        ELSE LET row == operatingHours[CHOOSE i \in rows : \A j \in rows : i <= j]
             IN  /\ c.startDate <= midnight + openMinute(row) * MsPerMinute
                 /\ c.endDate >= midnight + closeMinute(row) * MsPerMinute

\* C13: getExcludedDates of either picker returns calendar date d iff some
\* closure begins at or before opening on d and ends at or after closing on
\* d (00:00 to 23:59 when d's weekday has no active row); so every interior
\* day of a multi-day closure is excluded, and no date is excluded that has
\* an operating-hours slot outside every closure.
C13_ExcludedDates ==
    probe.fn = "getExcludedDates" =>
        \A day \in 0..(MaxDay + 1) :
            LET covered == \E i \in 1..Len(closureDates) :
                               CoversDay(closureDates[i], day)
            IN  /\ (MkDate(day, 0, 0, 0, 0) \in Range(probe.base)) <=> covered
                /\ (MkDate(day, 0, 0, 0, 0) \in Range(probe.ext)) <=> covered

\* the fifteen-minute boundaries of the day of date that C14 keeps
ExpectedTimes(date) ==
    { t \in { DayOf(date) * MsPerDay + k * 15 * MsPerMinute : k \in 0..95 } :
        /\ WithinHours(t)
        /\ ~\E i \in 1..Len(closureDates) :
              /\ closureDates[i].isActive
              /\ closureDates[i].startDate <= t
              /\ t < closureDates[i].endDate
        /\ DayOf(date) = DayOf(now) => t > now }

\* C14: for a date whose weekday has an active row, getAvailableTimes of
\* either picker returns exactly the fifteen-minute boundaries of that day
\* within [open, close] that are inside no ACTIVE closure's [start, end) and,
\* when the date is today, strictly after now; a slot inside an inactive
\* closure is kept.
C14_AvailableTimes ==
    (probe.fn = "getAvailableTimes" /\ ActiveRowsOn(probe.args[1]) # {}) =>
        /\ Range(probe.base) = ExpectedTimes(probe.args[1])
        /\ Len(probe.base) = Cardinality(ExpectedTimes(probe.args[1]))
        /\ probe.ext = probe.base

\* every fifteen-minute boundary of calendar day `day`, the future ones only
\* when the day is today
OpenEnumeration(day) ==
    { t \in { day * MsPerDay + k * 15 * MsPerMinute : k \in 0..95 } :
        day = DayOf(now) => t > now }

\* a sequence lists exactly the members of a set, each once
Lists(seq, set) == Range(seq) = set /\ Len(seq) = Cardinality(set)

\* no end is committed while the table is empty: none is held, and the last
\* handleEndChange on a non-null pick called nothing
NoEndCommitted ==
    /\ endDate = NULL
    /\ (lastOp.op \in EndHandlers /\ lastOp.arg # NULL) => calls = <<>>

\* C15 as stated, getAvailableTimes being that of the mounted picker: while
\* the operating-hours table is empty it offers every fifteen-minute
\* boundary (the future ones when the date is today), isTimeWithinShopHours
\* is false for every time, and handleEndChange commits no end.
C15_EmptyTablePermissive ==
    operatingHours = <<>> =>
        /\ \A day \in 0..MaxDay :
            Lists(IF BasePicker THEN getAvailableTimes(day * MsPerDay)
                                ELSE Ext_getAvailableTimes(day * MsPerDay),
                  OpenEnumeration(day))
        /\ \A t \in Picks : ~isTimeWithinShopHours(t) /\ ~Ext_isTimeWithinShopHours(t)
        /\ NoEndCommitted

\* C15 amended: while the operating-hours table is empty,
\* DateTimeRangePicker.getAvailableTimes offers every fifteen-minute
\* boundary (the future ones when the date is today) whereas
\* ExtendDateTimeRangePicker.getAvailableTimes offers none;
\* isTimeWithinShopHours of both pickers is false for every time, and
\* handleEndChange of neither picker commits an end.
C15_EmptyTableBaseOnlyPermissive ==
    operatingHours = <<>> =>
        /\ \A day \in 0..MaxDay :
            /\ Lists(getAvailableTimes(day * MsPerDay), OpenEnumeration(day))
            /\ Ext_getAvailableTimes(day * MsPerDay) = <<>>
        /\ \A t \in Picks : ~isTimeWithinShopHours(t) /\ ~Ext_isTimeWithinShopHours(t)
        /\ NoEndCommitted

\* before the hours arrive the base picker offers 11:00 today, and rejects
\* it when it is picked as the end
C15_Witness ==
    /\ BasePicker
    /\ operatingHours = <<>>
    /\ EndHandlerRan("handleEndChange")
    /\ startDate = MkDate(0, 10, 0, 0, 0)
    /\ lastOp.arg = MkDate(0, 11, 0, 0, 0)
    /\ lastOp.arg \in Range(getAvailableTimes(lastOp.arg))
    /\ toastMsg = ShopClosedMsg
    /\ calls = <<>>

NearBoundary(t) ==
    /\ ~WithinHours(t)
    /\ \E i \in ActiveRowsOn(t) :
        LET open == openMinute(operatingHours[i]) * MsPerMinute
            close == closeMinute(operatingHours[i]) * MsPerMinute
        IN  \/ (msOfDay(t) > close /\ msOfDay(t) - close <= 5 * MsPerMinute)
            \/ (msOfDay(t) < open /\ open - msOfDay(t) <= 5 * MsPerMinute)

\* a slot whose end is on a later calendar day than its start and near a
\* boundary, and that has no other defect: the start is admitted and no
\* closure, active or not, overlaps the slot
GraceEndSlot(s, e) ==
    /\ DayOf(e) > DayOf(s)
    /\ NearBoundary(e)
    /\ (WithinHours(s) \/ NearBoundary(s))
    /\ ~\E i \in 1..Len(closureDates) :
          s < closureDates[i].endDate /\ e > closureDates[i].startDate

\* C17: on the same hours, closures and start, an end on a later calendar
\* day that is outside [open, close] but within 5 minutes of the boundary
\* is accepted by the base picker's validateTimeSlot and rejected by the
\* extension picker's; the extension picker's validateTimeSlot never
\* accepts an end outside [open, close] of its weekday.
C17_GraceAsymmetry ==
    probe.fn = "validateTimeSlot" =>
        /\ GraceEndSlot(probe.args[1], probe.args[2]) => (probe.base /\ ~probe.ext)
        /\ probe.ext => WithinHours(probe.args[2])

\* 18:05 on the day after the start, on a day that closes at 18:00
C17_Witness ==
    /\ probe.fn = "validateTimeSlot"
    /\ operatingHours = HoursDay
    /\ probe.args = <<MkDate(0, 11, 0, 0, 0), MkDate(1, 18, 5, 0, 0)>>
    /\ GraceEndSlot(probe.args[1], probe.args[2])
    /\ probe.base /\ ~probe.ext

\* C18: both snapping operations are idempotent for every timestamp, with
\* any minute, second and millisecond, in both pickers:
\* enforceStrict15Minutes(enforceStrict15Minutes(x)) = enforceStrict15Minutes(x)
\* and roundUpToNext15Minutes(roundUpToNext15Minutes(x)) =
\* roundUpToNext15Minutes(x), also when rounding up carries into the next
\* hour or the next day.
C18_SnapIdempotent ==
    /\ probe.fn = "enforceStrict15Minutes" =>
        /\ enforceStrict15Minutes(probe.base) = probe.base
        /\ Ext_enforceStrict15Minutes(probe.ext) = probe.ext
    /\ probe.fn = "roundUpToNext15Minutes" =>
        /\ roundUpToNext15Minutes(probe.base) = probe.base
        /\ Ext_roundUpToNext15Minutes(probe.ext) = probe.ext

\* 23:59:59.999 rounds up into the next day, and stays there
C18_Witness ==
    /\ probe.fn = "roundUpToNext15Minutes"
    /\ probe.args = <<MkDate(0, 23, 59, 59, 999)>>
    /\ probe.base = MkDate(1, 0, 0, 0, 0)
    /\ roundUpToNext15Minutes(probe.base) = probe.base

\* C19: for every timestamp x, with any seconds and milliseconds,
\* x - 15 min < enforceStrict15Minutes(x) <= x and
\* x <= roundUpToNext15Minutes(x) < x + 15 min, also for x whose minutes are
\* a multiple of 15 and whose seconds or milliseconds are not zero.
C19_SnapDirection ==
    /\ probe.fn = "enforceStrict15Minutes" =>
        LET x == probe.args[1]
        IN  /\ x - 15 * MsPerMinute < probe.base /\ probe.base <= x
            /\ probe.ext = probe.base
    /\ probe.fn = "roundUpToNext15Minutes" =>
        LET x == probe.args[1]
        IN  /\ x <= probe.base /\ probe.base < x + 15 * MsPerMinute
            /\ probe.ext = probe.base

\* C20: after a failed operating-hours/closures fetch the operating-hours
\* and closure tables of the picker are empty and isLoadingShopHours is
\* false, for the first fetch after mount and for a fetch that a location
\* change triggered after a fetch for another location succeeded.
C20_FailedFetchEmptyTables ==
    lastOp.op = "fetchRejected" =>
        /\ operatingHours = <<>>
        /\ closureDates = <<>>
        /\ isLoadingShopHours = FALSE

\* C21 as stated: after the one fetch of the mount, a fetch is issued in
\* exactly the steps that change the location (one each), never after a
\* failure, and never while both tables are supplied through props.
C21_OneFetchPerLocation ==
    /\ issued = (IF skipsFetch(props) THEN 0 ELSE 1)
    /\ [][/\ issued' \in {issued, issued + 1}
          /\ issued' # issued => location' # location
          /\ (location' # location /\ ~skipsFetch(props')) => issued' = issued + 1
          /\ skipsFetch(props') => issued' = issued
          /\ lastOp'.op = "fetchRejected" => issued' = issued]_vars

\* C21 amended: the picker issues one fetch at mount and one more in every
\* step that changes the location or, in DateTimeRangePicker, one of the
\* two table props; it issues none in any other step, none after a failure
\* (no retry), and none at mount or on a change while both tables are
\* supplied through props.
C21_OneFetchPerDependencyChange ==
    /\ issued = (IF skipsFetch(props) THEN 0 ELSE 1)
    /\ [][/\ issued' \in {issued, issued + 1}
          /\ issued' # issued => (location' # location \/ props' # props)
          /\ ((location' # location \/ props' # props) /\ ~skipsFetch(props'))
                => (issued' = issued + 1 /\ inflight' = Append(inflight, location'))
          /\ skipsFetch(props') => issued' = issued
          /\ lastOp'.op = "fetchRejected" => issued' = issued]_vars

\* a second fetch, issued by a location change while the first is in flight
C21_Witness ==
    /\ lastOp.op = "locationChange"
    /\ issued = 2
    /\ inflight = <<"Kovan", "Orchard">>
    /\ location = "Orchard"

\* C29: isLoadingShopHours is true for as long as a fetch is in flight, and
\* once the fetches have resolved, in whatever order, the operating hours
\* and closures the picker holds are those fetched for the current location.
C29_LatestLocationWins ==
    /\ inflight # <<>> => isLoadingShopHours
    /\ (inflight = <<>> /\ lastOp.op = "fetchResolved") =>
        /\ operatingHours = ServerTables(location).hours
        /\ closureDates = ServerTables(location).closures

\* C28: in DateTimeRangePicker every start change (handleDateSelect with a
\* date, handleStartChange with any argument, null included) leaves the end
\* null, so a non-null end is always one that handleEndChange committed
\* against the start that is still committed
C28_EndFollowsStart ==
    /\ picker = "DateTimeRangePicker" => endDate = NULL
    /\ [][picker = "DateTimeRangePicker" =>
            /\ lastOp'.op \in {"handleDateSelect", "handleStartChange"} => endDate' = NULL
            /\ startDate' # startDate => endDate' = NULL
            /\ (endDate' # NULL /\ endDate' # endDate) =>
                /\ lastOp'.op = "handleEndChange"
                /\ startDate # NULL
                /\ startDate' = startDate]_vars

\* a manual time selection of the start discards the end committed before
C28_Witness ==
    /\ picker = "DateTimeRangePicker"
    /\ lastOp.op = "handleStartChange"
    /\ lastOp.arg # NULL
    /\ calls[1] = onEndDateChange(NULL)
    /\ Len(calls) = 3
    /\ startDate # NULL
    /\ endDate = NULL

\* ============================================================== headcount
\* BookingForm: the two callbacks handed to PeopleSelector

\* PeopleSelector max={15}, lowered to keep the breakdowns enumerable
MaxPeople == 5

\* the breakdowns PeopleSelector may report: total is the sum of the parts
Breakdowns ==
    { b \in [coWorkers : 0..MaxPeople, coTutors : 0..MaxPeople,
             coStudents : 0..MaxPeople, total : 1..MaxPeople] :
        b.total = b.coWorkers + b.coTutors + b.coStudents }

\* what BookingForm's headcount handlers never touch
peopleFrame == <<now, picker, props, location, issued, operatingHours, closureDates,
                 isLoadingShopHours, inflight, startDate, endDate, viewedDateInCalendar,
                 user, route, probe, authVars>>

\* BookingForm after its first render (lines 27-42)
InitPeople ==
    /\ now = MkDate(0, 8, 20, 0, 0)
    /\ picker = "DateTimeRangePicker"
    /\ props = [operatingHours |-> UNDEFINED, closureDates |-> UNDEFINED]
    /\ location = "Kovan"
    /\ issued = 0
    /\ operatingHours = <<>>
    /\ closureDates = <<>>
    /\ isLoadingShopHours = FALSE
    /\ inflight = <<>>
    /\ startDate = NULL
    /\ endDate = NULL
    /\ viewedDateInCalendar = NULL
    /\ user = NULL
    /\ route = HomePage
    /\ people = 1
    /\ peopleBreakdown = [coWorkers |-> 1, coTutors |-> 0, coStudents |-> 0, total |-> 1]
    /\ toastMsg = NoToast
    /\ calls = <<>>
    /\ lastOp = Mounted
    /\ probe = NoProbe
    /\ AuthAtRest

\* BookingForm.handlePeopleChange(newPeople)
HandlePeopleChange ==
    /\ \E newPeople \in 1..MaxPeople :
        /\ people' = newPeople
        /\ peopleBreakdown' =
            IF people # newPeople /\ peopleBreakdown.total # newPeople
            THEN [peopleBreakdown EXCEPT
                    !.total = newPeople,
                    !.coWorkers =
                        LET rest == newPeople - peopleBreakdown.coTutors
                                              - peopleBreakdown.coStudents
                        IN  IF rest > 1 THEN rest ELSE 1]
            ELSE peopleBreakdown
        /\ lastOp' = [op |-> "handlePeopleChange", arg |-> newPeople]
    /\ toastMsg' = NoToast
    /\ calls' = <<>>
    /\ UNCHANGED peopleFrame

\* BookingForm.handleBreakdownChange(newBreakdown); JSON.stringify compares
\* the four fields
HandleBreakdownChange ==
    /\ \E newBreakdown \in Breakdowns :
        /\ peopleBreakdown' = newBreakdown
        /\ people' = IF peopleBreakdown # newBreakdown THEN newBreakdown.total ELSE people
        /\ lastOp' = [op |-> "handleBreakdownChange", arg |-> newBreakdown.total]
    /\ toastMsg' = NoToast
    /\ calls' = <<>>
    /\ UNCHANGED peopleFrame

NextPeople ==
    \/ HandlePeopleChange
    \/ HandleBreakdownChange

SpecPeople == InitPeople /\ [][NextPeople]_vars

\* C30: after any sequence of handlePeopleChange(n), 1 <= n <= 15, and of
\* handleBreakdownChange(b) with b.total the sum of b's parts, the headcount
\* BookingForm hands to checkout is consistent: people = peopleBreakdown.total
\* = coWorkers + coTutors + coStudents
C30_HeadcountConsistent ==
    /\ people = peopleBreakdown.total
    /\ peopleBreakdown.total =
        peopleBreakdown.coWorkers + peopleBreakdown.coTutors + peopleBreakdown.coStudents

\* ================================================================ useAuth
\* src/hooks/useAuth.ts: one mounted hook, the auth SDK and the User table

\* the auth events and refreshDatabaseUser calls of a behaviour
MaxAuthSteps == 2

\* the user the SDK signs in: a User is modelled by its id
AuthUserId == 1

\* the row of the User table, disabled or not
UserRow(id, disabled) ==
    [id |-> id, memberType |-> "STUDENT", studentVerificationStatus |-> "VERIFIED",
     disabled |-> disabled]

\* what the race of the query with the 10 s timer settles with: a row, an
\* error, no row, or a rejection (the query throws or the timer wins)
QueryOutcomes ==
    { [kind |-> "data", data |-> <<UserRow(AuthUserId, d)>>] : d \in BOOLEAN }
        \cup { [kind |-> k, data |-> <<>>] : k \in {"error", "noRow", "rejected"} }

\* saveToStorage(authUser, dbUser): each entry is set, or removed when null
saveToStorage(authUser, dbUser) ==
    [auth_user |-> authUser, database_user |-> dbUser]

\* createMockDatabaseUser(authUser); disabled is left undefined, which reads
\* as false
createMockDatabaseUser(authUser) ==
    [id |-> authUser, memberType |-> "MEMBER", studentVerificationStatus |-> "NA",
     disabled |-> FALSE]

\* fetchDatabaseUser finds the row disabled and goes on to sign out
rowDisabled(outcome) ==
    outcome.kind = "data" /\ outcome.data[1].disabled

\* how fetchDatabaseUser(authUser) settles once the race has: the throw of
\* the disabled branch is inside the try, so the catch turns it into the mock
\* user like every other failure
fetchDatabaseUser(authUser, outcome) ==
    IF outcome.kind # "data"
    THEN createMockDatabaseUser(authUser)
    ELSE IF rowDisabled(outcome)
         THEN createMockDatabaseUser(authUser)
         ELSE outcome.data[1]

\* const isLoggedIn = !!user && !!databaseUser
isLoggedIn == user # NULL /\ databaseUser # <<>>

NoStorage == saveToStorage(NULL, <<>>)

\* an async call of the hook that awaits the SDK
Task(fn, pc, authUser) == [fn |-> fn, pc |-> pc, authUser |-> authUser]

AuthStep(op, arg) ==
    /\ lastOp' = [op |-> op, arg |-> arg]
    /\ toastMsg' = NoToast
    /\ calls' = <<>>

\* what useAuth never touches
authFrame == <<now, picker, props, location, issued, operatingHours, closureDates,
               isLoadingShopHours, inflight, startDate, endDate, viewedDateInCalendar,
               route, people, peopleBreakdown, probe>>

\* the state after the first render and the mount effect: the cached entries
\* are applied, verifySession awaits getSession, the listener is subscribed
InitAuth ==
    /\ now = MkDate(0, 8, 20, 0, 0)
    /\ picker = "DateTimeRangePicker"
    /\ props = [operatingHours |-> UNDEFINED, closureDates |-> UNDEFINED]
    /\ location = "Kovan"
    /\ issued = 0
    /\ operatingHours = <<>>
    /\ closureDates = <<>>
    /\ isLoadingShopHours = FALSE
    /\ inflight = <<>>
    /\ startDate = NULL
    /\ endDate = NULL
    /\ viewedDateInCalendar = NULL
    /\ route = HomePage
    /\ people = 1
    /\ peopleBreakdown = [coWorkers |-> 1, coTutors |-> 0, coStudents |-> 0, total |-> 1]
    /\ toastMsg = NoToast
    /\ calls = <<>>
    /\ lastOp = [op |-> "mount", arg |-> "effect"]
    /\ probe = NoProbe
    /\ session \in {NULL, AuthUserId}
    /\ storage \in { NoStorage,
                     saveToStorage(AuthUserId, <<>>),
                     saveToStorage(AuthUserId, <<UserRow(AuthUserId, FALSE)>>) }
    /\ storedDatabaseUser = storage.database_user
    /\ hasCachedData = (storage.auth_user # NULL /\ storage.database_user # <<>>)
    /\ user = (IF hasCachedData THEN storage.auth_user ELSE NULL)
    /\ databaseUser = (IF hasCachedData THEN storage.database_user ELSE <<>>)
    /\ loading = ~hasCachedData
    /\ isMounted = TRUE
    /\ tasks = << Task("verifySession", "getSession", NULL) >>
    /\ pendingSignedOut = FALSE
    /\ windowEvents = <<>>
    /\ dbFetches = <<>>
    /\ authSteps = 0

\* mutant: the no-session branches leave the localStorage entries
clearedUser_keepsStorage ==
    /\ user' = NULL
    /\ databaseUser' = <<>>
    /\ storage' = storage
    /\ loading' = FALSE

\* the no-session branches (185-194, 316-327) while mounted
clearedUser ==
    /\ user' = NULL
    /\ databaseUser' = <<>>
    /\ storage' = NoStorage
    /\ loading' = FALSE

\* the listener's branch for an event without a session (316-327)
signedOutBranch ==
    IF isMounted
    THEN clearedUser /\ hasCachedData' = FALSE
    ELSE UNCHANGED <<user, databaseUser, storage, loading, hasCachedData>>

\* mutant: the callers of fetchDatabaseUser forget setLoading(false)
resumeAfterFetch_keepsLoading(task, dbUser, store) ==
    IF task.fn = "refreshDatabaseUser"
    THEN /\ databaseUser' = (IF isMounted THEN <<dbUser>> ELSE databaseUser)
         /\ storage' = saveToStorage(task.authUser, <<dbUser>>)
         /\ UNCHANGED <<user, hasCachedData, loading>>
    ELSE IF isMounted
         THEN /\ user' = task.authUser
              /\ databaseUser' = <<dbUser>>
              /\ storage' = saveToStorage(task.authUser, <<dbUser>>)
              /\ hasCachedData' = TRUE
              /\ loading' = loading
         ELSE /\ storage' = store
              /\ UNCHANGED <<user, databaseUser, hasCachedData, loading>>

\* what the caller of fetchDatabaseUser does with the database user it
\* resolved with: verifySession 212-218, the SIGNED_IN listener 275-281 and
\* 330-332, refreshDatabaseUser 351-353; store is localStorage at that point
resumeAfterFetch(task, dbUser, store) ==
    IF task.fn = "refreshDatabaseUser"
    THEN /\ databaseUser' = (IF isMounted THEN <<dbUser>> ELSE databaseUser)
         /\ storage' = saveToStorage(task.authUser, <<dbUser>>)
         /\ UNCHANGED <<user, hasCachedData, loading>>
    ELSE IF isMounted
         THEN /\ user' = task.authUser
              /\ databaseUser' = <<dbUser>>
              /\ storage' = saveToStorage(task.authUser, <<dbUser>>)
              /\ hasCachedData' = TRUE
              /\ loading' = FALSE
         ELSE /\ storage' = store
              /\ UNCHANGED <<user, databaseUser, hasCachedData, loading>>

\* supabase.auth.getSession() of verifySession resolves with the session the
\* SDK holds: lines 183-238 up to the next await
GetSessionResolve ==
    /\ \E i \in 1..Len(tasks) :
        /\ tasks[i].pc = "getSession"
        /\ IF session = NULL
           THEN /\ IF isMounted
                   THEN clearedUser
                   ELSE UNCHANGED <<user, databaseUser, storage, loading>>
                /\ tasks' = RemoveAt(tasks, i)
                /\ UNCHANGED dbFetches
                /\ AuthStep("verifySession", "noSession")
           ELSE IF hasCachedData /\ isMounted
           THEN /\ user' = session
                /\ storage' = saveToStorage(session, storedDatabaseUser)
                /\ loading' = FALSE
                /\ tasks' = RemoveAt(tasks, i)
                /\ UNCHANGED <<databaseUser, dbFetches>>
                /\ AuthStep("verifySession", "cached")
           ELSE IF ~hasCachedData /\ isMounted
           THEN /\ tasks' = [tasks EXCEPT ![i] = Task("verifySession", "query", session)]
                /\ dbFetches' = Append(dbFetches, "verifySession")
                /\ UNCHANGED <<user, databaseUser, storage, loading>>
                /\ AuthStep("verifySession", "fetch")
           ELSE /\ tasks' = RemoveAt(tasks, i)
                /\ UNCHANGED <<user, databaseUser, storage, loading, dbFetches>>
                /\ AuthStep("verifySession", "unmounted")
    /\ UNCHANGED <<authFrame, hasCachedData, isMounted, storedDatabaseUser, session,
                   pendingSignedOut, windowEvents, authSteps>>

\* supabase.auth.getSession() rejects: the outer catch, 239-245
GetSessionReject ==
    /\ \E i \in 1..Len(tasks) :
        /\ tasks[i].pc = "getSession"
        /\ tasks' = RemoveAt(tasks, i)
    /\ loading' = (loading /\ ~isMounted)
    /\ AuthStep("verifySession", "getSessionFailed")
    /\ UNCHANGED <<authFrame, user, databaseUser, storage, hasCachedData, isMounted,
                   storedDatabaseUser, session, pendingSignedOut, windowEvents,
                   dbFetches, authSteps>>

\* the race of fetchDatabaseUser settles (107): a disabled row goes on to
\* await signOut, every other outcome returns to the caller at once
QuerySettle ==
    /\ \E i \in 1..Len(tasks), outcome \in QueryOutcomes :
        /\ tasks[i].pc = "query"
        /\ IF rowDisabled(outcome)
           THEN /\ tasks' = [tasks EXCEPT ![i].pc = "signOut"]
                /\ UNCHANGED <<user, databaseUser, storage, hasCachedData, loading>>
                /\ AuthStep("fetchDatabaseUser", "disabled")
           ELSE /\ tasks' = RemoveAt(tasks, i)
                /\ resumeAfterFetch(tasks[i],
                                    fetchDatabaseUser(tasks[i].authUser, outcome),
                                    storage)
                /\ AuthStep("fetchDatabaseUser",
                            IF outcome.kind = "data" THEN "row" ELSE outcome.kind)
    /\ UNCHANGED <<authFrame, isMounted, storedDatabaseUser, session, pendingSignedOut,
                   windowEvents, dbFetches, authSteps>>

\* supabase.auth.signOut() of the disabled branch (118) ends the session and
\* notifies the listener, during the call or after it
SignOutResolve ==
    /\ \E i \in 1..Len(tasks), during \in BOOLEAN :
        /\ tasks[i].pc = "signOut"
        /\ tasks' = [tasks EXCEPT ![i].pc = "signedOut"]
        /\ IF during
           THEN signedOutBranch /\ UNCHANGED pendingSignedOut
           ELSE /\ pendingSignedOut' = TRUE
                /\ UNCHANGED <<user, databaseUser, storage, loading, hasCachedData>>
    /\ session' = NULL
    /\ AuthStep("signOut", IF pendingSignedOut' = pendingSignedOut /\ ~pendingSignedOut
                            THEN "notified" ELSE "resolved")
    /\ UNCHANGED <<authFrame, isMounted, storedDatabaseUser, windowEvents, dbFetches,
                   authSteps>>

\* supabase.auth.signOut() rejects: the catch of fetchDatabaseUser returns
\* the mock user to the caller
SignOutReject ==
    /\ \E i \in 1..Len(tasks) :
        /\ tasks[i].pc = "signOut"
        /\ tasks' = RemoveAt(tasks, i)
        /\ resumeAfterFetch(tasks[i],
                            fetchDatabaseUser(tasks[i].authUser,
                                [kind |-> "data",
                                 data |-> <<UserRow(tasks[i].authUser, TRUE)>>]),
                            storage)
    /\ AuthStep("signOut", "rejected")
    /\ UNCHANGED <<authFrame, isMounted, storedDatabaseUser, session, pendingSignedOut,
                   windowEvents, dbFetches, authSteps>>

\* after signOut the disabled branch removes both entries and throws (120-123);
\* the catch (144-147) returns the mock user to the caller
DisabledReturn ==
    /\ \E i \in 1..Len(tasks) :
        /\ tasks[i].pc = "signedOut"
        /\ tasks' = RemoveAt(tasks, i)
        /\ resumeAfterFetch(tasks[i],
                            fetchDatabaseUser(tasks[i].authUser,
                                [kind |-> "data",
                                 data |-> <<UserRow(tasks[i].authUser, TRUE)>>]),
                            NoStorage)
    /\ AuthStep("fetchDatabaseUser", "disabledReturned")
    /\ UNCHANGED <<authFrame, isMounted, storedDatabaseUser, session, pendingSignedOut,
                   windowEvents, dbFetches, authSteps>>

\* the SDK delivers the SIGNED_OUT of a signOut call to the listener
DeliverSignedOut ==
    /\ pendingSignedOut
    /\ pendingSignedOut' = FALSE
    /\ signedOutBranch
    /\ AuthStep("onAuthStateChange", "SIGNED_OUT")
    /\ UNCHANGED <<authFrame, isMounted, storedDatabaseUser, session, tasks,
                   windowEvents, dbFetches, authSteps>>

\* the listener of onAuthStateChange (263-333) up to its first await
onAuthStateChange(event, sess) ==
    IF ~isMounted
    THEN UNCHANGED <<user, databaseUser, storage, hasCachedData, loading, tasks, dbFetches>>
    ELSE IF sess # NULL
    THEN IF event = "SIGNED_IN"
         THEN /\ tasks' = Append(tasks, Task("onAuthStateChange", "query", sess))
              /\ dbFetches' = Append(dbFetches, "SIGNED_IN")
              /\ UNCHANGED <<user, databaseUser, storage, hasCachedData, loading>>
         ELSE /\ user' = sess
              /\ loading' = FALSE
              /\ UNCHANGED <<databaseUser, storage, hasCachedData, tasks, dbFetches>>
    ELSE /\ signedOutBranch
         /\ UNCHANGED <<tasks, dbFetches>>

\* the SDK reports a sign-in, a token refresh, the initial session or a
\* sign-out to the listener
AuthStateChange ==
    /\ authSteps < MaxAuthSteps
    /\ \E event \in {"SIGNED_IN", "TOKEN_REFRESHED", "INITIAL_SESSION", "SIGNED_OUT"} :
        /\ event = "TOKEN_REFRESHED" => session # NULL
        /\ session' = CASE event = "SIGNED_IN" -> AuthUserId
                        [] event = "SIGNED_OUT" -> NULL
                        [] OTHER -> session
        /\ onAuthStateChange(event, session')
        /\ AuthStep("onAuthStateChange", event)
    /\ authSteps' = authSteps + 1
    /\ UNCHANGED <<authFrame, isMounted, storedDatabaseUser, pendingSignedOut,
                   windowEvents>>

\* a component calls refreshDatabaseUser() (346-357) up to its await
RefreshDatabaseUser ==
    /\ authSteps < MaxAuthSteps
    /\ isMounted
    /\ authSteps' = authSteps + 1
    /\ IF user = NULL
       THEN UNCHANGED <<tasks, dbFetches>>
       ELSE /\ tasks' = Append(tasks, Task("refreshDatabaseUser", "query", user))
            /\ dbFetches' = Append(dbFetches, "refreshDatabaseUser")
    /\ AuthStep("refreshDatabaseUser", IF user = NULL THEN "noUser" ELSE "fetch")
    /\ UNCHANGED <<authFrame, user, databaseUser, storage, hasCachedData, loading,
                   isMounted, storedDatabaseUser, session, pendingSignedOut,
                   windowEvents>>

\* the cleanup of the mount effect (336-339)
Unmount ==
    /\ isMounted
    /\ isMounted' = FALSE
    /\ AuthStep("unmount", "cleanup")
    /\ UNCHANGED <<authFrame, user, databaseUser, storage, hasCachedData, loading,
                   storedDatabaseUser, session, tasks, pendingSignedOut, windowEvents,
                   dbFetches, authSteps>>

\* the SDK calls the hook awaits settle
SdkSettles ==
    \/ GetSessionResolve
    \/ GetSessionReject
    \/ QuerySettle
    \/ SignOutResolve
    \/ SignOutReject
    \/ DisabledReturn
    \/ DeliverSignedOut

NextAuth ==
    \/ SdkSettles
    \/ AuthStateChange
    \/ RefreshDatabaseUser
    \/ Unmount

SpecAuth == InitAuth /\ [][NextAuth]_vars

\* every SDK call the hook awaits settles in the end
SpecAuthLive == SpecAuth /\ WF_vars(SdkSettles)

\* ------------------------------------------------------------ useAuth claims

\* C22: when the row fetched by verifySession or by the SIGNED_IN listener is
\* disabled, the mounted hook ends signed out: user and databaseUser null, both
\* localStorage entries removed, loading false and 'user-disabled' dispatched
\* on window; no database user is set or stored for the disabled account
C22_DisabledAccountSignedOut ==
    (/\ lastOp.op = "fetchDatabaseUser"
     /\ lastOp.arg = "disabledReturned"
     /\ isMounted
     /\ "refreshDatabaseUser" \notin Range(dbFetches)) =>
        /\ user = NULL
        /\ databaseUser = <<>>
        /\ storage = NoStorage
        /\ ~loading
        /\ "user-disabled" \in Range(windowEvents)

\* C25: fetchDatabaseUser never rejects: its caller always resumes with a
\* database user, the mock user (id of the auth user, memberType MEMBER,
\* studentVerificationStatus NA) after an error, no row, a throw or the
\* timeout, and the fields of the fetched row otherwise
C25_FetchNeverRejects ==
    (/\ lastOp.op = "fetchDatabaseUser"
     /\ lastOp.arg # "disabled"
     /\ isMounted) =>
        databaseUser =
            << IF lastOp.arg \in {"error", "noRow", "rejected"}
               THEN [id |-> AuthUserId, memberType |-> "MEMBER",
                     studentVerificationStatus |-> "NA", disabled |-> FALSE]
               ELSE UserRow(AuthUserId, lastOp.arg = "disabledReturned") >>

\* C26: after every auth state change that carries no session, and after a
\* session verification that finds no session, the mounted hook has user and
\* databaseUser null, both localStorage entries removed and loading false, so
\* isLoggedIn is false
C26_NoSessionClearsUser ==
    (/\ isMounted
     /\ \/ lastOp.op = "onAuthStateChange"
            /\ (lastOp.arg = "SIGNED_OUT"
                \/ (lastOp.arg = "INITIAL_SESSION" /\ session = NULL))
        \/ lastOp.op = "signOut" /\ lastOp.arg = "notified"
        \/ lastOp.op = "verifySession" /\ lastOp.arg = "noSession") =>
        /\ user = NULL
        /\ databaseUser = <<>>
        /\ storage = NoStorage
        /\ ~loading
        /\ ~isLoggedIn

\* a hook mounted on cached entries is signed out while it is logged in
C26_Witness ==
    /\ lastOp.op = "onAuthStateChange"
    /\ lastOp.arg = "SIGNED_OUT"
    /\ isMounted
    /\ storedDatabaseUser # <<>>
    /\ tasks = <<>>
    /\ user = NULL
    /\ storage = NoStorage

\* C27: once the mounted hook has processed a sign-out event, user and
\* databaseUser stay null and both localStorage entries stay absent until an
\* auth event that carries a session arrives: no verification or database
\* fetch that was in flight repopulates them
C27_SignOutSticks ==
    [][(/\ lastOp.op = "onAuthStateChange"
        /\ lastOp.arg = "SIGNED_OUT"
        /\ isMounted
        /\ ~(lastOp'.op = "onAuthStateChange" /\ session' # NULL)) =>
            /\ user' = NULL
            /\ databaseUser' = <<>>
            /\ storage' = NoStorage]_vars

\* C24: a mount that finds both entries applies them and ends loading before
\* any SDK call, and its session verification never queries the User table:
\* only the verification of a mount without cached entries, a SIGNED_IN event
\* or a refresh call does
C24_CachedMountNeverFetches ==
    /\ storedDatabaseUser # <<>> => "verifySession" \notin Range(dbFetches)
    /\ (lastOp.op = "mount" /\ storedDatabaseUser # <<>>) =>
        /\ user = storage.auth_user
        /\ databaseUser = storedDatabaseUser
        /\ ~loading
        /\ dbFetches = <<>>
    /\ Range(dbFetches) \subseteq {"verifySession", "SIGNED_IN", "refreshDatabaseUser"}

\* C23: while the hook stays mounted and every SDK call settles, loading
\* becomes false in the end on every path of the mount effect, and once it is
\* false no step sets it to true again
C23_LoadingEnds ==
    /\ <>(~isMounted \/ ~loading)
    /\ [][~loading => ~loading']_vars

\* a mount without cached entries ends loading through a failed getSession
C23_Witness ==
    /\ lastOp.op = "verifySession"
    /\ lastOp.arg = "getSessionFailed"
    /\ isMounted
    /\ storedDatabaseUser = <<>>
    /\ authSteps = 0
    /\ ~loading

====
